---- MODULE Spec2Model ----
(***************************************************************************)
(* A model of the orchestration and fetch-client core of the data         *)
(* pipeline (apps/data-pipeline): the sliding-window RateLimiter, the     *)
(* retrying fetch functions and the response cache of make_request, the   *)
(* Scheduler (schedule_jobs, run_all_now, start, stop) and the            *)
(* DataPipelineRunner one-shot entry point.                               *)
(*                                                                         *)
(* Each component has its own specification over the same variables; a    *)
(* component that a specification does not exercise stays in its initial  *)
(* state.                                                                  *)
(***************************************************************************)
EXTENDS Integers, Sequences, FiniteSets, TLC

VARIABLES
    clock,              \* time.time(): the wall clock, in model ticks
    \* ---- RateLimiter (economic_report_fetcher.py) ----
    calls_per_minute,   \* RateLimiter.calls_per_minute
    call_times,         \* RateLimiter.call_times, oldest first
    lpc,                \* position of each caller inside wait_if_needed
    lsleep,             \* each caller's local sleep_time
    lwake,              \* the clock value at which the caller's time.sleep may return
    recorded,           \* history: every timestamp ever appended to call_times
    overlapped,         \* history: a call began while another caller was inside wait_if_needed
    \* ---- Scheduler (scheduler.py, main_scheduler.py) ----
    mode,               \* main_scheduler.py argument: "once", "test" or "start"
    user_type,          \* Scheduler.user_type
    spc,                \* position of the scheduler process
    is_running,         \* Scheduler.is_running
    jobs,               \* the schedule library's job list: [job, every, next_run]
    tasks,              \* the coroutines handed to asyncio.gather: [job, st]
    syncLeft,           \* synchronous handlers run_all_now has still to call
    cur,                \* the handler executing synchronously, or NoJob
    curEntry,           \* the schedule entry that handler was run for (0: none)
    todo,               \* run_pending: the runnable entries not yet run
    passStarted,        \* history: executions begun by run_all_now, per job
    passFinished,       \* history: executions ended inside run_all_now, per job
    tickDue,            \* history: the entries runnable when run_pending began
    tickRan,            \* history: the entries run_pending has run, in order
    threw,              \* history: a handler body raised in the pass or tick under way
    ranAfter,           \* history: a handler was started after that in the same pass or tick
    stopEntry,          \* history: the entry executing when stop() was called (0: none, -1: no call)
    watch,              \* history: the schedule entry whose times are recorded (0: none)
    wStart,             \* history: when the last execution of its job began (-1: never)
    wEnd,               \* history: when run_pending's last run of it returned (-1: never)
    exit_code,          \* the exit status of the process, or NoExit
    moreStarts,         \* history: start() calls made after the first one
    \* ---- DataPipelineRunner (run_all_fetchers.py) ----
    rpc,                \* position of the runner process
    fetcher_arg,        \* the --fetcher argument, or NoArg
    fetcher_instances,  \* the names with an instance in DataPipelineRunner.fetcher_instances
    ridx,               \* initialize_fetchers: index of the next FETCHERS entry
    rqueue,             \* the names run_fetcher has still to be called for
    rcur,               \* the fetcher whose run() is awaited, or NoJob
    results,            \* run_all_fetchers: results, per name ("unset" before)
    routcome,           \* history: how each fetcher's run ended
    rstarted,           \* history: run_fetcher calls, per name
    rmode,              \* run_all_fetchers.py argument --mode: "once" or "scheduled"
    runner_is_running,  \* DataPipelineRunner.is_running
    rjobs,              \* the runner's schedule: [job, unit, at, tag]
    \* ---- retrying fetch functions and the response cache ----
    fpc,                \* position of the fetching process
    api_key_set,        \* unusual_whales_api.API_KEY is non-empty
    fn,                 \* the fetch function the process calls
    fkey,               \* the request: url and params (make_request: cache_key)
    attempt,            \* the 0-based attempt number
    retry_delay,        \* the function's local retry_delay, in seconds
    wait,               \* the seconds of the time.sleep under way (0: none)
    netCalls,           \* history: session.get calls made by the call under way
    failedAll,          \* history: every attempt so far was a failed session.get
    fstart,             \* history: the clock when the call was made
    fres,               \* how the call ended
    cache,              \* the diskcache Cache: per key, payload and expire_time
    prev,               \* history: the call that returned last
    ncalls,             \* history: the number of calls made
    acquired,           \* history: wait_if_needed() calls made by the call under way
    lastOut,            \* history: how the last attempt of the call under way ended
    \* ---- main_scheduler.py start-up and market_data_fetcher.DEMO_MODE ----
    dev,                \* the --dev flag of main_scheduler.py
    env_DEMO_MODE,      \* os.environ["DEMO_MODE"], or "unset"
    DEMO_MODE,          \* market_data_fetcher.DEMO_MODE ("unbound" before the import)
    served,             \* history: what fetch_with_rate_limit served last
    \* ---- the minimum-interval limiter of one fetcher instance ----
    mclass,             \* the class of the instance
    mpc,                \* position of the code calling its fetch methods
    mpath,              \* the fetch method called last
    last_request_time,  \* self.last_request_time
    mwake,              \* when the time.sleep under way returns
    lastNet,            \* history: when the last requests.get was issued (-1: never)
    lastOk,             \* history: that request got a good response
    tooClose            \* history: two consecutive requests were less than the interval apart

limVars == <<calls_per_minute, call_times, lpc, lsleep, lwake, recorded, overlapped>>
schedVars == <<mode, user_type, spc, is_running, jobs, tasks, syncLeft,
               cur, curEntry, todo, passStarted, passFinished, tickDue, tickRan,
               threw, ranAfter, stopEntry, watch, wStart, wEnd>>
runVars == <<rpc, fetcher_arg, fetcher_instances, ridx, rqueue, rcur, results,
             routcome, rstarted>>
lifeVars == <<moreStarts>>
rschedVars == <<rmode, runner_is_running, rjobs>>
fetchVars == <<fpc, api_key_set, fn, fkey, attempt, retry_delay, wait, netCalls,
               failedAll, fstart, fres, cache, prev, ncalls, acquired,
               lastOut>>
demoVars == <<dev, env_DEMO_MODE, DEMO_MODE, served>>
marketVars == <<mclass, mpc, mpath, last_request_time, mwake, lastNet, lastOk,
                tooClose>>
vars == <<clock, limVars, schedVars, exit_code, lifeVars, runVars, rschedVars,
          fetchVars, demoVars, marketVars>>

\* What each component leaves alone.
notLimiter == <<schedVars, exit_code, lifeVars, runVars, rschedVars, fetchVars,
                demoVars, marketVars>>
\* (a single start() leaves the count of further start() calls alone)
notSched == <<limVars, lifeVars, runVars, rschedVars, fetchVars, demoVars,
              marketVars>>
\* (the one-shot runner leaves the fields of the scheduled mode alone)
notRunner == <<limVars, schedVars, lifeVars, rschedVars, fetchVars, demoVars,
               marketVars>>
notFetch == <<schedVars, exit_code, lifeVars, runVars, rschedVars, demoVars,
              marketVars>>

----------------------------------------------------------------------------
\* Bounds of the model.

\* The length of the limiter's window in clock ticks (60 s in the source; one
\* tick of the limiter clock is 60/Window seconds).
Window == 4
\* calls_per_minute is a constructor argument: it ranges over 1..MaxLimit.
MaxLimit == 2
\* The number of wait_if_needed() calls one run issues.
MaxCalls == 3
\* The last clock value of a limiter run.
MaxClock == 6

Callers == {"c1"}
\* The callers of a limiter shared by two threads.
Threads == {"c1", "c2"}

----------------------------------------------------------------------------
\* RateLimiter

\* A filter that forgets every timestamp.
FilterRecentDropsAll(ct, now) == <<>>

\* A limiter that adds the age of the oldest call to the window.
SleepTimeAgeAdded(now, ct) == Window + (now - ct[1])

\* self.call_times = [t for t in self.call_times if now - t < 60]
RECURSIVE FilterRecent(_, _)
FilterRecent(ct, now) ==
    IF ct = <<>> THEN <<>>
    ELSE IF now - Head(ct) < Window
         THEN <<Head(ct)>> \o FilterRecent(Tail(ct), now)
         ELSE FilterRecent(Tail(ct), now)

\* A limiter with the subtraction the wrong way round.
SleepTimeSignFlipped(now, ct) == (now - ct[1]) - Window

\* sleep_time = 60 - (now - self.call_times[0])
SleepTime(now, ct) == Window - (now - ct[1])

LimiterInit ==
    /\ calls_per_minute \in 1..MaxLimit
    /\ call_times = <<>>
    /\ lpc = [c \in Threads |-> "idle"]
    /\ lsleep = [c \in Threads |-> 0]
    /\ lwake = [c \in Threads |-> 0]
    /\ recorded = <<>>
    /\ overlapped = FALSE

\* No limiter is exercised.
LimiterOff ==
    /\ calls_per_minute = 1
    /\ call_times = <<>>
    /\ lpc = [c \in Threads |-> "idle"]
    /\ lsleep = [c \in Threads |-> 0]
    /\ lwake = [c \in Threads |-> 0]
    /\ recorded = <<>>
    /\ overlapped = FALSE

\* Lines 51-58: read the clock, drop the expired timestamps, decide whether to
\* sleep.
WaitCheck(c) ==
    /\ lpc[c] = "idle"
    /\ Len(recorded) < MaxCalls
    /\ LET now == clock
           ct == FilterRecent(call_times, now)
       IN /\ call_times' = ct
          /\ IF Len(ct) >= calls_per_minute /\ SleepTime(now, ct) > 0
             THEN /\ lpc' = [lpc EXCEPT ![c] = "sleep"]
                  /\ lsleep' = [lsleep EXCEPT ![c] = SleepTime(now, ct)]
             ELSE /\ lpc' = [lpc EXCEPT ![c] = "append"]
                  /\ UNCHANGED lsleep
    /\ overlapped' = (overlapped \/ \E o \in Threads \ {c} : lpc[o] # "idle")
    /\ UNCHANGED <<clock, calls_per_minute, lwake, recorded, notLimiter>>

\* Line 59: time.sleep(sleep_time) is entered; it returns no earlier than
\* sleep_time after this moment.
SleepStart(c) ==
    /\ lpc[c] = "sleep"
    /\ lwake' = [lwake EXCEPT ![c] = clock + lsleep[c]]
    /\ lpc' = [lpc EXCEPT ![c] = "sleeping"]
    /\ UNCHANGED <<clock, calls_per_minute, call_times, lsleep, recorded, overlapped,
                   notLimiter>>

\* A sleep that may return before sleep_time has passed.
SleepEndEarly(c) ==
    /\ lpc[c] = "sleeping"
    /\ lpc' = [lpc EXCEPT ![c] = "append"]
    /\ UNCHANGED <<clock, calls_per_minute, call_times, lsleep, lwake, recorded,
                   overlapped, notLimiter>>

\* time.sleep(sleep_time) returns; the next statement is the append of line 61.
SleepEnd(c) ==
    /\ lpc[c] = "sleeping"
    /\ clock >= lwake[c]
    /\ lpc' = [lpc EXCEPT ![c] = "append"]
    /\ UNCHANGED <<clock, calls_per_minute, call_times, lsleep, lwake, recorded,
                   overlapped, notLimiter>>

\* Line 61: self.call_times.append(time.time()), and the call returns (its
\* locals are gone).
RecordCall(c) ==
    /\ lpc[c] = "append"
    /\ call_times' = Append(call_times, clock)
    /\ recorded' = Append(recorded, clock)
    /\ lpc' = [lpc EXCEPT ![c] = "idle"]
    /\ lsleep' = [lsleep EXCEPT ![c] = 0]
    /\ lwake' = [lwake EXCEPT ![c] = 0]
    /\ UNCHANGED <<clock, calls_per_minute, overlapped, notLimiter>>

\* scheduler.py line 154, in every execution of run_economic_report_fetcher:
\* EconomicReportFetcher() builds its limiters anew (lines 66-67), with an
\* empty call_times. The execution before it has returned.
NewEconomicReportFetcher ==
    /\ \A c \in Threads : lpc[c] = "idle"
    /\ call_times' = <<>>
    /\ UNCHANGED <<clock, calls_per_minute, lpc, lsleep, lwake, recorded, overlapped,
                   notLimiter>>

\* Time passes; it may pass between any two statements, and it passes until
\* every sleep under way can return.
LimiterTick ==
    /\ \/ clock < MaxClock
       \/ \E c \in Threads : lpc[c] = "sleeping" /\ clock < lwake[c]
    /\ clock' = clock + 1
    /\ UNCHANGED <<limVars, notLimiter>>

----------------------------------------------------------------------------
\* Scheduler

\* The last clock value of a scheduler run; one tick of the scheduler clock is
\* 15 minutes, the shortest cadence of schedule_jobs.
MaxTime == 16
\* A handler execution, and one time.sleep(1), take no measurable time or one
\* tick.
Durations == {0, 1}

NoJob == "none"
\* exit_code while the process runs.
NoExit == -1

Jobs == {"run_market_data_trader", "run_option_flow_processor",
         "run_dark_pool_processor", "run_economic_report_fetcher",
         "run_market_data_investor", "run_sec_edgar",
         "run_holdings_change_detector", "run_fundamental_analyzer",
         "run_economic_indicator_fetcher", "run_interview_processor"}

\* USER_TYPE is any string; "other" stands for every value that is none of
\* trader, investor, both.
UserTypes == {"trader", "investor", "both", "other"}
Modes == {"once", "test", "start"}

IsTrader(ut) == ut = "trader" \/ ut = "both"
IsInvestor(ut) == ut = "investor" \/ ut = "both"

Entry(j, n) == [job |-> j, every |-> n]

\* schedule_jobs, the trader block: every 15 minutes, 1 hour, 2 hours, 15 minutes.
TraderEntries ==
    << Entry("run_market_data_trader", 1),
       Entry("run_option_flow_processor", 4),
       Entry("run_dark_pool_processor", 8),
       Entry("run_economic_report_fetcher", 1) >>

\* An investor block that does not schedule the interview processor.
InvestorEntriesWithoutInterview ==
    << Entry("run_market_data_investor", 16),
       Entry("run_sec_edgar", 16),
       Entry("run_holdings_change_detector", 16),
       Entry("run_fundamental_analyzer", 48),
       Entry("run_economic_indicator_fetcher", 24),
       Entry("run_economic_report_fetcher", 16) >>

\* schedule_jobs, the investor block: every 4, 4, 4, 12, 6, 4, 12 hours.
InvestorEntries ==
    << Entry("run_market_data_investor", 16),
       Entry("run_sec_edgar", 16),
       Entry("run_holdings_change_detector", 16),
       Entry("run_fundamental_analyzer", 48),
       Entry("run_economic_indicator_fetcher", 24),
       Entry("run_economic_report_fetcher", 16),
       Entry("run_interview_processor", 48) >>

ScheduleEntries(ut) ==
    (IF IsTrader(ut) THEN TraderEntries ELSE <<>>)
        \o (IF IsInvestor(ut) THEN InvestorEntries ELSE <<>>)

\* A registration whose entries are runnable at once.
schedule_jobsDueAtOnce(ut, now) ==
    [i \in 1..Len(ScheduleEntries(ut)) |->
        [job |-> ScheduleEntries(ut)[i].job,
         every |-> ScheduleEntries(ut)[i].every,
         next_run |-> now]]

\* schedule.every(n).<unit>.do(...): the entry is first due one interval from now.
schedule_jobs(ut, now) ==
    [i \in 1..Len(ScheduleEntries(ut)) |->
        [job |-> ScheduleEntries(ut)[i].job,
         every |-> ScheduleEntries(ut)[i].every,
         next_run |-> now + ScheduleEntries(ut)[i].every]]

RegisteredJobs(ut) == {ScheduleEntries(ut)[i].job : i \in 1..Len(ScheduleEntries(ut))}

\* run_all_now, the coroutines of the trader block.
TraderAsyncTasks ==
    <<"run_market_data_trader", "run_option_flow_processor", "run_dark_pool_processor">>

\* An investor block that lists the trader's market data coroutine again.
InvestorAsyncTasksCopied ==
    <<"run_market_data_trader", "run_sec_edgar", "run_holdings_change_detector">>

\* run_all_now, the coroutines of the investor block.
InvestorAsyncTasks ==
    <<"run_market_data_investor", "run_sec_edgar", "run_holdings_change_detector">>

AsyncTasks(ut) ==
    (IF IsTrader(ut) THEN TraderAsyncTasks ELSE <<>>)
        \o (IF IsInvestor(ut) THEN InvestorAsyncTasks ELSE <<>>)

\* A run_all_now without the "elif trader" branch.
SyncTasksInvestorOnly(ut) ==
    IF IsInvestor(ut)
    THEN <<"run_fundamental_analyzer", "run_economic_indicator_fetcher",
           "run_economic_report_fetcher", "run_interview_processor">>
    ELSE <<>>

\* run_all_now, "Run synchronous tasks".
SyncTasks(ut) ==
    IF IsInvestor(ut)
    THEN <<"run_fundamental_analyzer", "run_economic_indicator_fetcher",
           "run_economic_report_fetcher", "run_interview_processor">>
    ELSE IF ut = "trader" THEN <<"run_economic_report_fetcher">>
    ELSE <<>>

\* Handlers whose try block leaves the last handler out.
HandlerCatchesButLast(j) == j # "run_interview_processor"

\* Every run_* handler wraps its whole body in try / except Exception and logs.
HandlerCatches(j) == TRUE

\* The body of j raised and the exception leaves the handler.
Escapes(j, raised) == raised /\ ~HandlerCatches(j)

\* A should_run that holds only after next_run has passed.
DueStrictlyAfter(js, now) == {i \in 1..Len(js) : now > js[i].next_run}

\* A should_run that holds at the instant of next_run only.
DueOnlyAtNextRun(js, now) == {i \in 1..Len(js) : now = js[i].next_run}

\* job.should_run: now >= next_run
Due(js, now) == {i \in 1..Len(js) : now >= js[i].next_run}

\* run_pending sorts the runnable entries by next_run; sorted() is stable.
FirstDue(js, S) ==
    CHOOSE i \in S : \A k \in S :
        \/ js[i].next_run < js[k].next_run
        \/ js[i].next_run = js[k].next_run /\ i <= k

RECURSIVE SortedRunnable(_, _)
SortedRunnable(js, S) ==
    IF S = {} THEN <<>>
    ELSE LET i == FirstDue(js, S) IN <<i>> \o SortedRunnable(js, S \ {i})

NewTasks(ut) == [i \in 1..Len(AsyncTasks(ut)) |-> [job |-> AsyncTasks(ut)[i], st |-> "pending"]]

Bump(f, j) == [f EXCEPT ![j] = @ + 1]

\* j is the job of the watched entry.
Watched(j) == watch # 0 /\ ScheduleEntries(user_type)[watch].job = j

SchedInit ==
    /\ mode \in Modes
    /\ user_type \in UserTypes
    /\ spc = "created"
    /\ is_running = FALSE
    /\ jobs = <<>>
    /\ tasks = <<>>
    /\ syncLeft = <<>>
    /\ cur = NoJob
    /\ curEntry = 0
    /\ todo = <<>>
    /\ passStarted = [j \in Jobs |-> 0]
    /\ passFinished = [j \in Jobs |-> 0]
    /\ tickDue = {}
    /\ tickRan = <<>>
    /\ threw = FALSE
    /\ ranAfter = FALSE
    /\ stopEntry = -1
    /\ watch = 0
    /\ wStart = -1
    /\ wEnd = -1
    /\ moreStarts = 0

\* A trader scheduler, with one of its schedule entries watched.
SchedInitWatching ==
    /\ mode \in Modes
    /\ user_type = "trader"
    /\ spc = "created"
    /\ is_running = FALSE
    /\ jobs = <<>>
    /\ tasks = <<>>
    /\ syncLeft = <<>>
    /\ cur = NoJob
    /\ curEntry = 0
    /\ todo = <<>>
    /\ passStarted = [j \in Jobs |-> 0]
    /\ passFinished = [j \in Jobs |-> 0]
    /\ tickDue = {}
    /\ tickRan = <<>>
    /\ threw = FALSE
    /\ ranAfter = FALSE
    /\ stopEntry = -1
    /\ watch \in 1..Len(ScheduleEntries(user_type))
    /\ wStart = -1
    /\ wEnd = -1
    /\ moreStarts = 0

\* The scheduler process is not the one that runs.
SchedOff ==
    /\ mode = "once"
    /\ user_type = "both"
    /\ spc = "off"
    /\ is_running = FALSE
    /\ jobs = <<>>
    /\ tasks = <<>>
    /\ syncLeft = <<>>
    /\ cur = NoJob
    /\ curEntry = 0
    /\ todo = <<>>
    /\ passStarted = [j \in Jobs |-> 0]
    /\ passFinished = [j \in Jobs |-> 0]
    /\ tickDue = {}
    /\ tickRan = <<>>
    /\ threw = FALSE
    /\ ranAfter = FALSE
    /\ stopEntry = -1
    /\ watch = 0
    /\ wStart = -1
    /\ wEnd = -1
    /\ moreStarts = 0

\* An exception leaves start() or run_all_now(): main logs it, calls stop() and
\* exits with status 1 (main_scheduler.py lines 58-61).
Crash ==
    /\ spc' = "crashed"
    /\ is_running' = FALSE
    /\ exit_code' = 1
    /\ cur' = NoJob
    /\ curEntry' = 0

\* main_scheduler.py --once / --test: asyncio.run(scheduler.run_all_now()).
MainOnce ==
    /\ spc = "created"
    /\ mode \in {"once", "test"}
    /\ tasks' = NewTasks(user_type)
    /\ spc' = "gather"
    /\ UNCHANGED <<clock, mode, user_type, is_running, jobs, syncLeft, cur,
                   curEntry, todo, passStarted, passFinished, tickDue, tickRan,
                   threw, ranAfter, exit_code, stopEntry, watch, wStart, wEnd, notSched>>

\* A start() that enters the loop without the run_all_now pass.
StartWithoutPass ==
    /\ spc = "created"
    /\ mode = "start"
    /\ ~is_running
    /\ is_running' = TRUE
    /\ jobs' = schedule_jobs(user_type, clock)
    /\ spc' = "while"
    /\ UNCHANGED <<clock, mode, user_type, tasks, syncLeft, cur, curEntry, todo,
                   passStarted, passFinished, tickDue, tickRan, threw, ranAfter,
                   exit_code, stopEntry, watch, wStart, wEnd, notSched>>

\* Scheduler.start up to the call of run_all_now: the flag, schedule_jobs, and
\* the coroutines of run_all_now collected for asyncio.gather.
Start ==
    /\ spc = "created"
    /\ mode = "start"
    /\ ~is_running
    /\ is_running' = TRUE
    /\ jobs' = schedule_jobs(user_type, clock)
    /\ tasks' = NewTasks(user_type)
    /\ spc' = "gather"
    /\ UNCHANGED <<clock, mode, user_type, syncLeft, cur, curEntry, todo,
                   passStarted, passFinished, tickDue, tickRan, threw, ranAfter,
                   exit_code, stopEntry, watch, wStart, wEnd, notSched>>

\* The event loop runs the first step of the next coroutine, in gather order,
\* up to its first suspension or to its end.
TaskStep(i) ==
    /\ spc = "gather"
    /\ i \in DOMAIN tasks
    /\ tasks[i].st = "pending"
    /\ \A k \in 1..(i - 1) : tasks[k].st # "pending"
    /\ passStarted' = Bump(passStarted, tasks[i].job)
    /\ ranAfter' = (ranAfter \/ threw)
    /\ \E st \in {"suspended", "finished"}, raised \in BOOLEAN :
        /\ tasks' = [tasks EXCEPT ![i].st = st]
        /\ IF st = "finished"
           THEN /\ passFinished' = Bump(passFinished, tasks[i].job)
                /\ threw' = (threw \/ raised)
                /\ IF Escapes(tasks[i].job, raised)
                   THEN Crash
                   ELSE UNCHANGED <<spc, is_running, exit_code, cur, curEntry>>
           ELSE /\ ~raised
                /\ UNCHANGED <<passFinished, threw, spc, is_running, exit_code, cur,
                               curEntry>>
    /\ wStart' = IF Watched(tasks[i].job) THEN clock ELSE wStart
    /\ UNCHANGED <<clock, mode, user_type, jobs, syncLeft, todo, tickDue, tickRan,
                   stopEntry, watch, wEnd, notSched>>

\* A suspended coroutine is resumed and runs to its end; d ticks have passed.
TaskResume(i) ==
    /\ spc = "gather"
    /\ i \in DOMAIN tasks
    /\ tasks[i].st = "suspended"
    /\ \A k \in DOMAIN tasks : tasks[k].st # "pending"
    /\ \E d \in Durations :
        /\ clock + d <= MaxTime
        /\ clock' = clock + d
    /\ tasks' = [tasks EXCEPT ![i].st = "finished"]
    /\ passFinished' = Bump(passFinished, tasks[i].job)
    /\ \E raised \in BOOLEAN :
        /\ threw' = (threw \/ raised)
        /\ IF Escapes(tasks[i].job, raised)
           THEN Crash
           ELSE UNCHANGED <<spc, is_running, exit_code, cur, curEntry>>
    /\ UNCHANGED <<mode, user_type, jobs, syncLeft, todo, passStarted, tickDue,
                   tickRan, ranAfter, stopEntry, watch, wStart, wEnd, notSched>>

\* A wait that returns as soon as one coroutine has ended.
GatherFirstCompleted ==
    /\ spc = "gather"
    /\ \E k \in DOMAIN tasks : tasks[k].st = "finished"
    /\ \A k \in DOMAIN tasks : tasks[k].st # "pending"
    /\ spc' = "sync"
    /\ syncLeft' = SyncTasks(user_type)
    /\ UNCHANGED <<clock, mode, user_type, is_running, jobs, tasks, cur, curEntry,
                   todo, passStarted, passFinished, tickDue, tickRan, threw, ranAfter,
                   exit_code, stopEntry, watch, wStart, wEnd, notSched>>

\* await asyncio.gather(*tasks) returns: every coroutine has ended.
GatherDone ==
    /\ spc = "gather"
    /\ \A k \in DOMAIN tasks : tasks[k].st = "finished"
    /\ spc' = "sync"
    /\ syncLeft' = SyncTasks(user_type)
    /\ UNCHANGED <<clock, mode, user_type, is_running, jobs, tasks, cur, curEntry,
                   todo, passStarted, passFinished, tickDue, tickRan, threw, ranAfter,
                   exit_code, stopEntry, watch, wStart, wEnd, notSched>>

\* run_all_now calls the next synchronous handler.
SyncBegin ==
    /\ spc = "sync"
    /\ cur = NoJob
    /\ syncLeft # <<>>
    /\ cur' = Head(syncLeft)
    /\ syncLeft' = Tail(syncLeft)
    /\ passStarted' = Bump(passStarted, Head(syncLeft))
    /\ ranAfter' = (ranAfter \/ threw)
    /\ wStart' = IF Watched(Head(syncLeft)) THEN clock ELSE wStart
    /\ UNCHANGED <<clock, mode, user_type, spc, is_running, jobs, tasks, curEntry,
                   todo, passFinished, tickDue, tickRan, threw, exit_code, stopEntry,
                   watch, wEnd, notSched>>

\* The synchronous handler returns (or its exception leaves it).
SyncEnd ==
    /\ spc = "sync"
    /\ cur # NoJob
    /\ \E d \in Durations :
        /\ clock + d <= MaxTime
        /\ clock' = clock + d
    /\ passFinished' = Bump(passFinished, cur)
    /\ \E raised \in BOOLEAN :
        /\ threw' = (threw \/ raised)
        /\ IF Escapes(cur, raised)
           THEN Crash
           ELSE /\ cur' = NoJob
                /\ UNCHANGED <<spc, is_running, exit_code, curEntry>>
    /\ UNCHANGED <<mode, user_type, jobs, tasks, syncLeft, todo, passStarted,
                   tickDue, tickRan, ranAfter, stopEntry, watch, wStart, wEnd, notSched>>

\* run_all_now returns: to main (which returns: exit status 0) or to start().
PassReturn ==
    /\ spc = "sync"
    /\ cur = NoJob
    /\ syncLeft = <<>>
    /\ IF mode = "start"
       THEN spc' = "while" /\ UNCHANGED exit_code
       ELSE spc' = "exited" /\ exit_code' = 0
    /\ UNCHANGED <<clock, mode, user_type, is_running, jobs, tasks, syncLeft, cur,
                   curEntry, todo, passStarted, passFinished, tickDue, tickRan,
                   threw, ranAfter, stopEntry, watch, wStart, wEnd, notSched>>

\* while self.is_running: schedule.run_pending() collects the runnable entries.
LoopTest ==
    /\ spc = "while"
    /\ IF is_running
       THEN /\ spc' = "run_pending"
            /\ todo' = SortedRunnable(jobs, Due(jobs, clock))
            /\ tickDue' = Due(jobs, clock)
            /\ tickRan' = <<>>
            /\ threw' = FALSE
            /\ ranAfter' = FALSE
            /\ UNCHANGED exit_code
       ELSE /\ spc' = "exited"
            /\ exit_code' = 0
            /\ UNCHANGED <<todo, tickDue, tickRan, threw, ranAfter>>
    /\ UNCHANGED <<clock, mode, user_type, is_running, jobs, tasks, syncLeft, cur,
                   curEntry, passStarted, passFinished, stopEntry, watch, wStart, wEnd, notSched>>

\* A run_pending that hands the next runnable entry to a worker without waiting
\* for the handler that executes.
RunJobBeginOnWorker ==
    /\ spc = "run_pending"
    /\ todo # <<>>
    /\ cur' = jobs[Head(todo)].job
    /\ curEntry' = Head(todo)
    /\ todo' = Tail(todo)
    /\ ranAfter' = (ranAfter \/ threw)
    /\ wStart' = IF Watched(jobs[Head(todo)].job) THEN clock ELSE wStart
    /\ UNCHANGED <<clock, mode, user_type, spc, is_running, jobs, tasks, syncLeft,
                   passStarted, passFinished, tickDue, tickRan, threw, exit_code,
                   stopEntry, watch, wEnd, notSched>>

\* run_pending calls job.run() of the next runnable entry: the handler itself
\* for a synchronous job, _run_async_job (run_until_complete) for a coroutine.
RunJobBegin ==
    /\ spc = "run_pending"
    /\ cur = NoJob
    /\ todo # <<>>
    /\ cur' = jobs[Head(todo)].job
    /\ curEntry' = Head(todo)
    /\ todo' = Tail(todo)
    /\ ranAfter' = (ranAfter \/ threw)
    /\ wStart' = IF Watched(jobs[Head(todo)].job) THEN clock ELSE wStart
    /\ UNCHANGED <<clock, mode, user_type, spc, is_running, jobs, tasks, syncLeft,
                   passStarted, passFinished, tickDue, tickRan, threw, exit_code,
                   stopEntry, watch, wEnd, notSched>>

\* A library that schedules the next run one interval after the time the handler
\* was started.
RunJobEndFromStart ==
    /\ spc = "run_pending"
    /\ cur # NoJob
    /\ \E d \in Durations :
        /\ clock + d <= MaxTime
        /\ clock' = clock + d
    /\ \E raised \in BOOLEAN :
        /\ threw' = (threw \/ raised)
        /\ IF Escapes(cur, raised)
           THEN /\ Crash
                /\ UNCHANGED <<jobs, tickRan>>
           ELSE /\ jobs' = [jobs EXCEPT
                              ![curEntry].next_run = clock + jobs[curEntry].every]
                /\ tickRan' = Append(tickRan, curEntry)
                /\ cur' = NoJob
                /\ curEntry' = 0
                /\ UNCHANGED <<spc, is_running, exit_code>>
    /\ wEnd' = IF curEntry = watch THEN clock' ELSE wEnd
    /\ UNCHANGED <<mode, user_type, tasks, syncLeft, todo, passStarted,
                   passFinished, tickDue, ranAfter, stopEntry, watch, wStart, notSched>>

\* A run_pending that leaves the next_run of an entry alone when its handler
\* failed, so that the entry is runnable again in the next tick.
RunJobEndRetriesOnError ==
    /\ spc = "run_pending"
    /\ cur # NoJob
    /\ \E d \in Durations :
        /\ clock + d <= MaxTime
        /\ clock' = clock + d
    /\ \E raised \in BOOLEAN :
        /\ threw' = (threw \/ raised)
        /\ IF Escapes(cur, raised)
           THEN /\ Crash
                /\ UNCHANGED <<jobs, tickRan>>
           ELSE /\ jobs' = IF raised
                           THEN jobs
                           ELSE [jobs EXCEPT
                                   ![curEntry].next_run = clock' + jobs[curEntry].every]
                /\ tickRan' = Append(tickRan, curEntry)
                /\ cur' = NoJob
                /\ curEntry' = 0
                /\ UNCHANGED <<spc, is_running, exit_code>>
    /\ wEnd' = IF curEntry = watch THEN clock' ELSE wEnd
    /\ UNCHANGED <<mode, user_type, tasks, syncLeft, todo, passStarted,
                   passFinished, tickDue, ranAfter, stopEntry, watch, wStart, notSched>>

\* The handler returns; the schedule library sets last_run to the present time
\* and next_run one interval after it.
RunJobEnd ==
    /\ spc = "run_pending"
    /\ cur # NoJob
    /\ \E d \in Durations :
        /\ clock + d <= MaxTime
        /\ clock' = clock + d
    /\ \E raised \in BOOLEAN :
        /\ threw' = (threw \/ raised)
        /\ IF Escapes(cur, raised)
           THEN /\ Crash
                /\ UNCHANGED <<jobs, tickRan>>
           ELSE /\ jobs' = [jobs EXCEPT
                              ![curEntry].next_run = clock' + jobs[curEntry].every]
                /\ tickRan' = Append(tickRan, curEntry)
                /\ cur' = NoJob
                /\ curEntry' = 0
                /\ UNCHANGED <<spc, is_running, exit_code>>
    /\ wEnd' = IF curEntry = watch THEN clock' ELSE wEnd
    /\ UNCHANGED <<mode, user_type, tasks, syncLeft, todo, passStarted,
                   passFinished, tickDue, ranAfter, stopEntry, watch, wStart, notSched>>

\* run_pending returns.
RunPendingReturn ==
    /\ spc = "run_pending"
    /\ cur = NoJob
    /\ todo = <<>>
    /\ spc' = "sleep"
    /\ UNCHANGED <<clock, mode, user_type, is_running, jobs, tasks, syncLeft, cur,
                   curEntry, todo, passStarted, passFinished, tickDue, tickRan,
                   threw, ranAfter, exit_code, stopEntry, watch, wStart, wEnd, notSched>>

\* time.sleep(1)
Sleep ==
    /\ spc = "sleep"
    /\ \E d \in Durations :
        /\ clock + d <= MaxTime
        /\ clock' = clock + d
    /\ spc' = "while"
    /\ UNCHANGED <<mode, user_type, is_running, jobs, tasks, syncLeft, cur, curEntry,
                   todo, passStarted, passFinished, tickDue, tickRan, threw, ranAfter,
                   exit_code, stopEntry, watch, wStart, wEnd, notSched>>

\* A main that returns on KeyboardInterrupt without calling stop().
InterruptWithoutStop ==
    /\ mode = "start"
    /\ spc \in {"gather", "sync", "while", "run_pending", "sleep"}
    /\ UNCHANGED is_running
    /\ spc' = "stopped"
    /\ cur' = NoJob
    /\ curEntry' = 0
    /\ tasks' = [i \in DOMAIN tasks |->
                    IF tasks[i].st = "finished" THEN tasks[i]
                    ELSE [tasks[i] EXCEPT !.st = "cancelled"]]
    /\ exit_code' = 0
    /\ UNCHANGED <<clock, mode, user_type, jobs, syncLeft, todo, passStarted,
                   passFinished, tickDue, tickRan, threw, ranAfter, stopEntry, watch, wStart, wEnd, notSched>>

\* KeyboardInterrupt while start() runs: it is no Exception, so no handler
\* catches it; main calls stop() and returns.
Interrupt ==
    /\ mode = "start"
    /\ spc \in {"gather", "sync", "while", "run_pending", "sleep"}
    /\ is_running' = FALSE
    /\ spc' = "stopped"
    /\ cur' = NoJob
    /\ curEntry' = 0
    /\ tasks' = [i \in DOMAIN tasks |->
                    IF tasks[i].st = "finished" THEN tasks[i]
                    ELSE [tasks[i] EXCEPT !.st = "cancelled"]]
    /\ exit_code' = 0
    /\ UNCHANGED <<clock, mode, user_type, jobs, syncLeft, todo, passStarted,
                   passFinished, tickDue, tickRan, threw, ranAfter, stopEntry, watch, wStart, wEnd, notSched>>

\* A stop() that also drops the handler executing and the rest of the tick.
StopCancelsTick ==
    /\ mode = "start"
    /\ spc \in {"gather", "sync", "while", "run_pending", "sleep"}
    /\ is_running
    /\ is_running' = FALSE
    /\ stopEntry' = curEntry
    /\ cur' = NoJob
    /\ curEntry' = 0
    /\ todo' = <<>>
    /\ UNCHANGED <<clock, mode, user_type, spc, jobs, tasks, syncLeft, passStarted,
                   passFinished, tickDue, tickRan, threw, ranAfter, exit_code,
                   watch, wStart, wEnd, notSched>>

\* Scheduler.stop() is called while start() runs (by a caller other than the
\* loop): self.is_running = False, nothing else.
Stop ==
    /\ mode = "start"
    /\ spc \in {"gather", "sync", "while", "run_pending", "sleep"}
    /\ is_running
    /\ is_running' = FALSE
    /\ stopEntry' = curEntry
    /\ UNCHANGED <<clock, mode, user_type, spc, jobs, tasks, syncLeft, cur, curEntry,
                   todo, passStarted, passFinished, tickDue, tickRan, threw, ranAfter,
                   exit_code, watch, wStart, wEnd, notSched>>

\* The number of start() calls a caller of the class makes after the first.
MaxStartCalls == 1

\* start() is called while another start() is in its pass or in its loop:
\* "if self.is_running: ... return".
StartWhileRunning ==
    /\ mode = "start"
    /\ spc \in {"gather", "sync", "while", "run_pending", "sleep"}
    /\ is_running
    /\ moreStarts < MaxStartCalls
    /\ moreStarts' = moreStarts + 1
    /\ UNCHANGED <<clock, schedVars, exit_code, limVars, runVars, rschedVars,
                   fetchVars, demoVars, marketVars>>

\* start() is called again when a stop() has ended the loop of the previous
\* start(): the flag is set, schedule_jobs adds its entries to the entries the
\* schedule module already holds (nothing calls schedule.clear), and the pass
\* and the loop run again.
StartAgain ==
    /\ mode = "start"
    /\ spc = "exited"
    /\ ~is_running
    /\ moreStarts < MaxStartCalls
    /\ moreStarts' = moreStarts + 1
    /\ is_running' = TRUE
    /\ jobs' = jobs \o schedule_jobs(user_type, clock)
    /\ tasks' = NewTasks(user_type)
    /\ spc' = "gather"
    /\ exit_code' = NoExit
    /\ passStarted' = [j \in Jobs |-> 0]
    /\ passFinished' = [j \in Jobs |-> 0]
    /\ stopEntry' = -1
    /\ UNCHANGED <<clock, mode, user_type, syncLeft, cur, curEntry, todo, tickDue,
                   tickRan, threw, ranAfter, watch, wStart, wEnd, limVars,
                   runVars, rschedVars, fetchVars, demoVars, marketVars>>

\* The Scheduler object in the hands of a caller that starts and stops it more
\* than once.
NextLifecycle ==
    \/ Start
    \/ \E i \in DOMAIN tasks : TaskStep(i)
    \/ \E i \in DOMAIN tasks : TaskResume(i)
    \/ GatherDone
    \/ SyncBegin
    \/ SyncEnd
    \/ PassReturn
    \/ LoopTest
    \/ RunJobBegin
    \/ RunJobEnd
    \/ RunPendingReturn
    \/ Sleep
    \/ Stop
    \/ StartWhileRunning
    \/ StartAgain

NextSched ==
    \/ MainOnce
    \/ Start
    \/ \E i \in DOMAIN tasks : TaskStep(i)
    \/ \E i \in DOMAIN tasks : TaskResume(i)
    \/ GatherDone
    \/ SyncBegin
    \/ SyncEnd
    \/ PassReturn
    \/ LoopTest
    \/ RunJobBegin
    \/ RunJobEnd
    \/ RunPendingReturn
    \/ Sleep
    \/ Stop
    \/ Interrupt


----------------------------------------------------------------------------
\* DataPipelineRunner and main of run_all_fetchers.py, mode "once"

\* FETCHERS, in order.
FETCHERS == <<"Bank Reports", "YouTube Videos", "Insider Trades",
              "Political Trades", "Hedge Fund Trades", "Financial News">>

Fetchers == {FETCHERS[i] : i \in 1..Len(FETCHERS)}

NoArg == "none"

\* str.lower() on the names and on the --fetcher arguments of the model.
Lower(x) ==
    CASE x = "Bank Reports" -> "bank reports"
      [] x = "BANK REPORTS" -> "bank reports"
      [] x = "YouTube Videos" -> "youtube videos"
      [] x = "Insider Trades" -> "insider trades"
      [] x = "Political Trades" -> "political trades"
      [] x = "Hedge Fund Trades" -> "hedge fund trades"
      [] x = "Financial News" -> "financial news"
      [] OTHER -> x

\* The values of --fetcher the model starts the process with.
FetcherArgs ==
    {NoArg, "", "Bank Reports", "BANK REPORTS", "financial news", "Market Data"}

\* "if args.fetcher:" is the truth value of the argument: None (no --fetcher)
\* and the empty string both fail it.
FetcherGiven(arg) == arg # NoArg /\ arg # ""

Unset == "unset"

RunnerInit ==
    /\ rpc = "created"
    /\ fetcher_arg \in FetcherArgs
    /\ fetcher_instances = {}
    /\ ridx = 1
    /\ rqueue = <<>>
    /\ rcur = NoJob
    /\ results = [f \in Fetchers |-> Unset]
    /\ routcome = [f \in Fetchers |-> Unset]
    /\ rstarted = [f \in Fetchers |-> 0]
    /\ rmode = "once"
    /\ runner_is_running = FALSE
    /\ rjobs = <<>>

\* The runner process is not the one that runs.
RunnerOff ==
    /\ rpc = "off"
    /\ fetcher_arg = NoArg
    /\ fetcher_instances = {}
    /\ ridx = 1
    /\ rqueue = <<>>
    /\ rcur = NoJob
    /\ results = [f \in Fetchers |-> Unset]
    /\ routcome = [f \in Fetchers |-> Unset]
    /\ rstarted = [f \in Fetchers |-> 0]
    /\ rmode = "once"
    /\ runner_is_running = FALSE
    /\ rjobs = <<>>

\* main, mode "once": a runner is made and initialize_fetchers is entered
\* (by run_all_fetchers, or by main itself when --fetcher is given).
RunnerMain ==
    /\ rpc = "created"
    /\ rmode = "once"
    /\ rpc' = "init"
    /\ UNCHANGED <<fetcher_arg, fetcher_instances, ridx, rqueue, rcur, results,
                   routcome, rstarted, exit_code, clock, notRunner>>

\* initialize_fetchers: one round of the loop; a constructor that raises is
\* logged and leaves no instance.
InitializeFetcher ==
    /\ rpc = "init"
    /\ ridx <= Len(FETCHERS)
    /\ \E ok \in BOOLEAN :
        fetcher_instances' =
            IF ok THEN fetcher_instances \cup {FETCHERS[ridx]} ELSE fetcher_instances
    /\ ridx' = ridx + 1
    /\ UNCHANGED <<rpc, fetcher_arg, rqueue, rcur, results, routcome, rstarted,
                   exit_code, clock, notRunner>>

\* main's search for the fetcher named by --fetcher: the first entry of
\* FETCHERS whose lowered name equals the lowered argument.
Matching(arg) == {i \in 1..Len(FETCHERS) : Lower(FETCHERS[i]) = Lower(arg)}

FirstMatch(arg) == CHOOSE i \in Matching(arg) : \A k \in Matching(arg) : i <= k

\* initialize_fetchers has returned: run_all_fetchers goes over FETCHERS, main
\* with --fetcher runs the match or logs that there is none and returns.
InitializeDone ==
    /\ rpc = "init"
    /\ rmode = "once"
    /\ ridx > Len(FETCHERS)
    /\ IF ~FetcherGiven(fetcher_arg)
       THEN /\ rqueue' = FETCHERS
            /\ rpc' = "run"
            /\ UNCHANGED exit_code
       ELSE IF Matching(fetcher_arg) # {}
       THEN /\ rqueue' = <<FETCHERS[FirstMatch(fetcher_arg)]>>
            /\ rpc' = "run"
            /\ UNCHANGED exit_code
       ELSE /\ rpc' = "exited"
            /\ exit_code' = 0
            /\ UNCHANGED rqueue
    /\ UNCHANGED <<fetcher_arg, fetcher_instances, ridx, rcur, results, routcome,
                   rstarted, clock, notRunner>>

\* run_fetcher is called for the next name: without an instance it returns
\* False at once, otherwise fetcher.run() is awaited.
RunFetcherBegin ==
    /\ rpc = "run"
    /\ rcur = NoJob
    /\ rqueue # <<>>
    /\ rstarted' = Bump(rstarted, Head(rqueue))
    /\ IF Head(rqueue) \notin fetcher_instances
       THEN /\ results' = [results EXCEPT ![Head(rqueue)] = "False"]
            /\ routcome' = [routcome EXCEPT ![Head(rqueue)] = "noinit"]
            /\ rqueue' = Tail(rqueue)
            /\ UNCHANGED rcur
       ELSE /\ rcur' = Head(rqueue)
            /\ UNCHANGED <<results, routcome, rqueue>>
    /\ UNCHANGED <<rpc, fetcher_arg, fetcher_instances, ridx, exit_code, clock,
                   notRunner>>

\* A run_fetcher that reports success whenever run() returned.
RunFetcherResultAnyReturn(out) == IF out = "raise" THEN "False" ELSE "True"

\* What run_fetcher returns for an awaited run(): its result, or False when it
\* raised.
RunFetcherResult(out) == IF out = "ok" THEN "True" ELSE "False"

\* fetcher.run() has returned True or False, or has raised; run_fetcher
\* returns and the caller stores (or logs) the result.
RunFetcherEnd ==
    /\ rpc = "run"
    /\ rcur # NoJob
    /\ \E out \in {"ok", "falsy", "raise"} :
        /\ results' = [results EXCEPT ![rcur] = RunFetcherResult(out)]
        /\ routcome' = [routcome EXCEPT ![rcur] = out]
    /\ rqueue' = Tail(rqueue)
    /\ rcur' = NoJob
    /\ UNCHANGED <<rpc, fetcher_arg, fetcher_instances, ridx, rstarted, exit_code,
                   clock, notRunner>>

\* The exit status main ends with when the jobs are over: main returns, no
\* sys.exit is called.
OneShotExitCode(res) == 0

\* The loop is over: the summary is logged and main returns.
RunnerReturn ==
    /\ rpc = "run"
    /\ rcur = NoJob
    /\ rqueue = <<>>
    /\ rpc' = "exited"
    /\ exit_code' = OneShotExitCode(results)
    /\ UNCHANGED <<fetcher_arg, fetcher_instances, ridx, rqueue, rcur, results,
                   routcome, rstarted, clock, notRunner>>

\* "schedule_hours" of the FETCHERS entries.
schedule_hours(f) ==
    CASE f = "Bank Reports" -> 12
      [] f = "YouTube Videos" -> 6
      [] f = "Insider Trades" -> 24
      [] f = "Political Trades" -> 24
      [] f = "Hedge Fund Trades" -> 24 * 7
      [] f = "Financial News" -> 3

\* Strings that the schedule library inspects are sequences of characters.
DigitChars == <<"0", "1", "2", "3", "4", "5", "6", "7", "8", "9">>

\* str(n) of the f-string, for n >= 0.
RECURSIVE Str(_)
Str(n) ==
    IF n < 10 THEN <<DigitChars[n + 1]>>
    ELSE Str(n \div 10) \o <<DigitChars[(n % 10) + 1]>>

\* schedule_time = f"*/{hours}" if hours < 24 else "00"
schedule_time(hours) ==
    IF hours < 24 THEN <<"*", "/">> \o Str(hours) ELSE <<"0", "0">>

\* The argument of every().hour.at(...): f":{schedule_time}"
HourlyAt(hours) == <<":">> \o schedule_time(hours)

IsDigit(c) == \E i \in 1..10 : DigitChars[i] = c

IsDigit05(c) == \E i \in 1..6 : DigitChars[i] = c

\* Job.at of the schedule library, unit "hours": the string must have the form
\* (MM)?:SS, otherwise at() raises ScheduleValueError.
ValidHourlyAt(t) ==
    \/ Len(t) = 3 /\ t[1] = ":" /\ IsDigit05(t[2]) /\ IsDigit(t[3])
    \/ /\ Len(t) = 5
       /\ IsDigit05(t[1]) /\ IsDigit(t[2])
       /\ t[3] = ":"
       /\ IsDigit05(t[4]) /\ IsDigit(t[5])

\* The two entries schedule_fetchers makes for fetcher f: the hourly one and
\* the daily one tagged "startup_run" (at the HH:MM of the registration).
FetcherEntries(f) ==
    << [job |-> f, unit |-> "hours", at |-> HourlyAt(schedule_hours(f)),
        tag |-> "none"],
       [job |-> f, unit |-> "days", at |-> <<"n", "o", "w">>,
        tag |-> "startup_run"] >>

\* main, mode "scheduled": run_scheduled makes a runner and runs
\* initialize_fetchers.
RunScheduled ==
    /\ rpc = "created"
    /\ rmode = "scheduled"
    /\ rpc' = "init"
    /\ UNCHANGED <<fetcher_arg, fetcher_instances, ridx, rqueue, rcur, results,
                   routcome, rstarted, exit_code, clock, limVars, schedVars,
                   lifeVars, rschedVars, fetchVars, demoVars, marketVars>>

\* initialize_fetchers has returned: run_scheduled calls start_scheduler, which
\* sets the flag and enters schedule_fetchers.
StartScheduler ==
    /\ rpc = "init"
    /\ rmode = "scheduled"
    /\ ridx > Len(FETCHERS)
    /\ runner_is_running' = TRUE
    /\ ridx' = 1
    /\ rpc' = "schedule_fetchers"
    /\ UNCHANGED <<fetcher_arg, fetcher_instances, rqueue, rcur, results, routcome,
                   rstarted, rmode, rjobs, exit_code, clock, limVars, schedVars,
                   lifeVars, fetchVars, demoVars, marketVars>>

\* schedule_fetchers, one round of the loop: every().hour.at(...) and then
\* every().day.at(now).  An at() that raises leaves schedule_fetchers and
\* start_scheduler; run_scheduled catches KeyboardInterrupt only, so the
\* exception ends the process (is_running stays set).
ScheduleFetcher ==
    /\ rpc = "schedule_fetchers"
    /\ ridx <= Len(FETCHERS)
    /\ IF ValidHourlyAt(HourlyAt(schedule_hours(FETCHERS[ridx])))
       THEN /\ rjobs' = rjobs \o FetcherEntries(FETCHERS[ridx])
            /\ ridx' = ridx + 1
            /\ UNCHANGED <<rpc, exit_code>>
       ELSE /\ rpc' = "crashed"
            /\ exit_code' = 1
            /\ UNCHANGED <<rjobs, ridx>>
    /\ UNCHANGED <<fetcher_arg, fetcher_instances, rqueue, rcur, results, routcome,
                   rstarted, rmode, runner_is_running, clock, limVars, schedVars,
                   lifeVars, fetchVars, demoVars, marketVars>>

\* The scheduled mode.  The first entry of FETCHERS has schedule_hours 12, so
\* schedule_fetchers is left in its first round and the loop of
\* start_scheduler (run_pending, sleep, cancel of the startup entries) is never
\* entered.
NextScheduled ==
    \/ RunScheduled
    \/ InitializeFetcher
    \/ StartScheduler
    \/ ScheduleFetcher

NextRunner ==
    \/ RunnerMain
    \/ InitializeFetcher
    \/ InitializeDone
    \/ RunFetcherBegin
    \/ RunFetcherEnd
    \/ RunnerReturn

----------------------------------------------------------------------------
\* The retrying fetch functions: fetch_with_retry (economic_report_fetcher.py),
\* fetch_with_rate_limit (economic_indicator_fetcher.py), _fetch_with_backoff
\* (sec_edgar_fetcher.py) and make_request with its response cache
\* (unusual_whales_api.py).

\* The number of calls one run issues.
MaxRequests == 3
\* The last clock value at which a fetch run lets time pass.
MaxFetchClock == 5
\* CACHE_EXPIRY (3600 s in the source) in clock ticks.
CacheExpiry == 2

FetchFns == {"fetch_with_retry", "fetch_with_rate_limit", "_fetch_with_backoff",
             "make_request"}
\* Two distinct requests (endpoint and params) of make_request.
Keys == {"k1", "k2"}
\* The requests a run passes to function f; the url matters to make_request
\* only, whose cache is keyed by it.
Requests(f) == IF f = "make_request" THEN Keys ELSE {"k1"}
\* What session.get and the status check yield: a good response, a transport
\* failure (timeout, connection error), a 4xx/5xx status, the provider's
\* throttling signal (HTTP 429 from SEC, the Alpha Vantage rate-limit notice in a
\* 200 response), a 2xx response whose body response.json() cannot decode
\* (make_request, line 95).
Outcomes(f) ==
    CASE f = "fetch_with_retry" -> {"ok", "transport", "http_error"}
      [] f = "fetch_with_rate_limit" -> {"ok", "transport", "http_error", "throttled"}
      [] f = "_fetch_with_backoff" -> {"ok", "transport", "http_error", "throttled"}
      [] f = "make_request" -> {"ok", "transport", "http_error", "malformed"}
\* A decoded response body: falsy ({} or []) or not.
Payloads == {"empty", "data"}
NoPayload == "none"
NoEntry == [payload |-> NoPayload, expire_time |-> 0]
NoCall == [fn |-> "none", key |-> "none", net |-> 0, res |-> "none", stored |-> 0]

\* max_retries of each function; stop_after_attempt(3) for make_request.
MaxAttempts(f) ==
    CASE f = "fetch_with_retry" -> 3
      [] f = "fetch_with_rate_limit" -> 3
      [] f = "_fetch_with_backoff" -> 5
      [] f = "make_request" -> 3

\* The initial value of the local retry_delay (0: the function has none).
InitialDelay(f) ==
    CASE f = "fetch_with_rate_limit" -> 60
      [] f = "_fetch_with_backoff" -> 1
      [] OTHER -> 0

\* A make_request that serves whatever the cache holds for the key, expired
\* or not.
CacheGetIgnoresExpiry(k, now) == cache[k].payload

\* cache.get(cache_key): the stored payload while its expire_time lies ahead,
\* None otherwise.
CacheGet(k, now) ==
    IF cache[k].payload # NoPayload /\ cache[k].expire_time > now
    THEN cache[k].payload
    ELSE NoPayload

\* "if cached_data:" is the truth value of the payload.
Truthy(p) == p = "data"

\* make_request returns the cached payload.
CacheHit(k, now) == Truthy(CacheGet(k, now))

\* wait_exponential(multiplier=1, min=2, max=10) after attempt a (0-based).
TenacityWait(a) ==
    LET exp == 2 ^ a
        capped == IF exp < 10 THEN exp ELSE 10
    IN IF capped > 2 THEN capped ELSE 2

\* Whether the function sleeps after a failed attempt a.
SleepsAfter(f, a, out) ==
    CASE f = "fetch_with_retry" -> a < MaxAttempts(f) - 1
      [] f = "fetch_with_rate_limit" -> out = "throttled" \/ a < MaxAttempts(f) - 1
      [] f = "_fetch_with_backoff" -> TRUE
      [] f = "make_request" -> a < MaxAttempts(f) - 1

\* A _fetch_with_backoff without the 10-second sleep.
BackoffSecondsNoCooldown(f, a, out, rd) ==
    CASE f = "fetch_with_retry" -> 2 ^ a
      [] f = "fetch_with_rate_limit" -> rd
      [] f = "_fetch_with_backoff" -> rd
      [] f = "make_request" -> TenacityWait(a)

\* The seconds slept after the failed attempt a.
BackoffSeconds(f, a, out, rd) ==
    CASE f = "fetch_with_retry" -> 2 ^ a
      [] f = "fetch_with_rate_limit" -> rd
      [] f = "_fetch_with_backoff" -> (IF out = "transport" THEN 0 ELSE 10) + rd
      [] f = "make_request" -> TenacityWait(a)

\* "for attempt in range(max_retries)" has no iteration left after attempt a.
LoopExhausted(f, a) == a + 1 >= MaxAttempts(f)

FetchInit ==
    /\ fpc = "idle"
    /\ fn \in FetchFns
    /\ api_key_set \in (IF fn = "make_request" THEN BOOLEAN ELSE {TRUE})
    /\ fkey = "none"
    /\ attempt = 0
    /\ retry_delay = 0
    /\ wait = 0
    /\ netCalls = 0
    /\ failedAll = FALSE
    /\ fstart = 0
    /\ fres = "none"
    /\ cache = [k \in Keys |-> NoEntry]
    /\ prev = NoCall
    /\ ncalls = 0
    /\ acquired = 0
    /\ lastOut = "none"

\* No fetch function is exercised.
FetchOff ==
    /\ fpc = "off"
    /\ api_key_set = FALSE
    /\ fn = "none"
    /\ fkey = "none"
    /\ attempt = 0
    /\ retry_delay = 0
    /\ wait = 0
    /\ netCalls = 0
    /\ failedAll = FALSE
    /\ fstart = 0
    /\ fres = "none"
    /\ cache = [k \in Keys |-> NoEntry]
    /\ prev = NoCall
    /\ ncalls = 0
    /\ acquired = 0
    /\ lastOut = "none"

\* The fetch function is called. fetch_with_retry passes http_limiter once,
\* before its loop: wait_if_needed() sleeps for sleep_time when the window is
\* full and appends the clock read after that.
FetchCall(k) ==
    /\ fpc = "idle"
    /\ ncalls < MaxRequests
    /\ k \in Requests(fn)
    /\ fkey' = k
    /\ attempt' = 0
    /\ retry_delay' = InitialDelay(fn)
    /\ wait' = 0
    /\ netCalls' = 0
    /\ failedAll' = TRUE
    /\ fres' = "none"
    /\ ncalls' = ncalls + 1
    /\ fpc' = "attempt"
    /\ IF fn = "fetch_with_retry"
       THEN LET ct == FilterRecent(call_times, clock)
                woke == IF Len(ct) >= calls_per_minute /\ SleepTime(clock, ct) > 0
                        THEN clock + SleepTime(clock, ct)
                        ELSE clock
            IN /\ clock' = woke
               /\ call_times' = Append(ct, woke)
               /\ recorded' = Append(recorded, woke)
       ELSE UNCHANGED <<clock, call_times, recorded>>
    /\ fstart' = clock'
    /\ acquired' = IF fn = "fetch_with_retry" THEN 1 ELSE 0
    /\ lastOut' = "none"
    /\ UNCHANGED <<calls_per_minute, lpc, lsleep, lwake, overlapped, api_key_set, fn, cache,
                   prev, notFetch>>

\* A cache whose entry starts a new lifetime each time it is served.
FetchFromCacheRenews ==
    /\ fpc = "attempt"
    /\ fn = "make_request"
    /\ CacheHit(fkey, clock)
    /\ fres' = "response"
    /\ failedAll' = FALSE
    /\ fpc' = "return"
    /\ cache' = [cache EXCEPT ![fkey].expire_time = clock + CacheExpiry]
    /\ UNCHANGED <<clock, limVars, api_key_set, fn, fkey, attempt, retry_delay, wait,
                   netCalls, fstart, prev, ncalls, acquired, lastOut, notFetch>>

\* make_request, lines 85-88: the cached payload is returned, no request is made.
FetchFromCache ==
    /\ fpc = "attempt"
    /\ fn = "make_request"
    /\ CacheHit(fkey, clock)
    /\ fres' = "response"
    /\ failedAll' = FALSE
    /\ fpc' = "return"
    /\ UNCHANGED <<clock, limVars, api_key_set, fn, fkey, attempt, retry_delay, wait,
                   netCalls, fstart, cache, prev, ncalls, acquired, lastOut, notFetch>>

\* make_request, line 92: get_headers() raises UnusualWhalesError before
\* session.get is called; the retry decorator treats it as any other exception.
MissingKey ==
    /\ fpc = "attempt"
    /\ fn = "make_request"
    /\ ~CacheHit(fkey, clock)
    /\ ~api_key_set
    /\ failedAll' = FALSE
    /\ lastOut' = "raised"
    /\ IF SleepsAfter(fn, attempt, "raised")
       THEN /\ fpc' = "backoff"
            /\ wait' = BackoffSeconds(fn, attempt, "raised", retry_delay)
            /\ UNCHANGED fres
       ELSE /\ fpc' = "return"
            /\ fres' = "raise"
            /\ UNCHANGED wait
    /\ UNCHANGED <<clock, limVars, api_key_set, fn, fkey, attempt, retry_delay,
                   netCalls, fstart, cache, prev, ncalls, acquired, notFetch>>

\* A make_request that stores the body of a failed response as well.
NetAttemptStoresAnyBody(out, p) ==
    /\ fpc = "attempt"
    /\ fn \in FetchFns
    /\ out \in Outcomes(fn)
    /\ fn = "make_request" => ~CacheHit(fkey, clock) /\ api_key_set
    /\ netCalls' = netCalls + 1
    /\ lastOut' = out
    /\ IF out = "ok"
       THEN /\ fres' = "response"
            /\ failedAll' = FALSE
            /\ fpc' = "return"
            /\ cache' = IF fn = "make_request"
                        THEN [cache EXCEPT ![fkey] =
                                 [payload |-> p, expire_time |-> clock + CacheExpiry]]
                        ELSE cache
            /\ UNCHANGED wait
       ELSE /\ p = "data"
            /\ IF SleepsAfter(fn, attempt, out)
               THEN /\ fpc' = "backoff"
                    /\ wait' = BackoffSeconds(fn, attempt, out, retry_delay)
                    /\ UNCHANGED fres
               ELSE /\ fpc' = "return"
                    /\ fres' = "raise"
                    /\ UNCHANGED wait
            /\ cache' = IF fn = "make_request"
                        THEN [cache EXCEPT ![fkey] =
                                 [payload |-> p, expire_time |-> clock + CacheExpiry]]
                        ELSE cache
            /\ UNCHANGED failedAll
    /\ UNCHANGED <<clock, limVars, api_key_set, fn, fkey, attempt, retry_delay,
                   fstart, prev, ncalls, acquired, notFetch>>

\* One session.get and what the function does with its outcome: return the
\* response (make_request stores the payload first), sleep before the next
\* attempt, or raise.
NetAttempt(out, p) ==
    /\ fpc = "attempt"
    /\ fn \in FetchFns
    /\ out \in Outcomes(fn)
    /\ fn = "make_request" => ~CacheHit(fkey, clock) /\ api_key_set
    /\ netCalls' = netCalls + 1
    /\ lastOut' = out
    /\ IF out = "ok"
       THEN /\ fres' = "response"
            /\ failedAll' = FALSE
            /\ fpc' = "return"
            /\ cache' = IF fn = "make_request"
                        THEN [cache EXCEPT ![fkey] =
                                 [payload |-> p, expire_time |-> clock + CacheExpiry]]
                        ELSE cache
            /\ UNCHANGED wait
       ELSE /\ p = "data"
            /\ IF SleepsAfter(fn, attempt, out)
               THEN /\ fpc' = "backoff"
                    /\ wait' = BackoffSeconds(fn, attempt, out, retry_delay)
                    /\ UNCHANGED fres
               ELSE /\ fpc' = "return"
                    /\ fres' = "raise"
                    /\ UNCHANGED wait
            /\ UNCHANGED <<failedAll, cache>>
    /\ UNCHANGED <<clock, limVars, api_key_set, fn, fkey, attempt, retry_delay,
                   fstart, prev, ncalls, acquired, notFetch>>

\* The sleep ends (d ticks have passed). The loop goes to its next attempt; when
\* it has none left, _fetch_with_backoff logs the failure and returns None
\* (lines 62-64), and fetch_with_rate_limit falls off its end, which returns None.
BackoffEnd(d) ==
    /\ fpc = "backoff"
    /\ d = 1 => clock < MaxFetchClock
    /\ clock' = clock + d
    /\ wait' = 0
    /\ retry_delay' = IF fn = "_fetch_with_backoff" THEN retry_delay * 2 ELSE retry_delay
    /\ IF LoopExhausted(fn, attempt)
       THEN /\ fpc' = "return"
            /\ fres' = IF fn = "_fetch_with_backoff" THEN "return None" ELSE "implicit None"
            /\ UNCHANGED attempt
       ELSE /\ fpc' = "attempt"
            /\ attempt' = attempt + 1
            /\ UNCHANGED fres
    /\ UNCHANGED <<limVars, api_key_set, fn, fkey, netCalls, failedAll, fstart,
                   cache, prev, ncalls, acquired, lastOut, notFetch>>

\* The call is over; the caller has its result.
FetchReturn ==
    /\ fpc = "return"
    /\ prev' = [fn |-> fn, key |-> fkey, net |-> netCalls, res |-> fres,
                stored |-> clock]
    /\ fpc' = "idle"
    /\ UNCHANGED <<clock, limVars, api_key_set, fn, fkey, attempt, retry_delay, wait,
                   netCalls, failedAll, fstart, fres, cache, ncalls, acquired, lastOut, notFetch>>

\* Time passes between two calls.
FetchTick ==
    /\ fpc = "idle"
    /\ clock < MaxFetchClock
    /\ clock' = clock + 1
    /\ UNCHANGED <<limVars, fetchVars, notFetch>>

NextFetch ==
    \/ \E k \in Keys : FetchCall(k)
    \/ FetchFromCache
    \/ MissingKey
    \/ \E out \in {"ok", "transport", "http_error", "throttled", "malformed"},
          p \in Payloads :
           NetAttempt(out, p)
    \/ \E d \in {0, 1} : BackoffEnd(d)
    \/ FetchReturn
    \/ FetchTick

----------------------------------------------------------------------------
\* main_scheduler.py start-up and the DEMO_MODE constant of market_data_fetcher

\* The values of DEMO_MODE in the environment (the process environment and
\* the .env file read by load_dotenv) when the process starts.
EnvValues == {"unset", "false", "true"}

\* os.getenv("DEMO_MODE", "false").lower() == "true"
DemoModeFromEnv(env) == (IF env = "unset" THEN "false" ELSE env) = "true"

MarketJobs == {"run_market_data_trader", "run_market_data_investor"}

\* No main_scheduler start-up is modelled.
DemoOff ==
    /\ dev = FALSE
    /\ env_DEMO_MODE = "unset"
    /\ DEMO_MODE = FALSE
    /\ served = "none"

\* python main_scheduler.py [--dev] [--once | --test]: nothing is imported yet.
SchedLoading ==
    /\ mode \in Modes
    /\ user_type = "trader"
    /\ spc = "loading"
    /\ is_running = FALSE
    /\ jobs = <<>>
    /\ tasks = <<>>
    /\ syncLeft = <<>>
    /\ cur = NoJob
    /\ curEntry = 0
    /\ todo = <<>>
    /\ passStarted = [j \in Jobs |-> 0]
    /\ passFinished = [j \in Jobs |-> 0]
    /\ tickDue = {}
    /\ tickRan = <<>>
    /\ threw = FALSE
    /\ ranAfter = FALSE
    /\ stopEntry = -1
    /\ watch = 0
    /\ wStart = -1
    /\ wEnd = -1
    /\ moreStarts = 0

\* main_scheduler.py line 8, "from scheduler import Scheduler, logger":
\* scheduler.py line 10 imports market_data_fetcher, whose line 26 binds
\* DEMO_MODE to what the environment holds at that moment.
ImportScheduler ==
    /\ spc = "loading"
    /\ DEMO_MODE' = DemoModeFromEnv(env_DEMO_MODE)
    /\ spc' = "main"
    /\ UNCHANGED <<clock, mode, user_type, is_running, jobs, tasks, syncLeft, cur,
                   curEntry, todo, passStarted, passFinished, tickDue, tickRan,
                   threw, ranAfter, stopEntry, watch, wStart, wEnd, exit_code,
                   dev, env_DEMO_MODE, served, limVars, runVars, rschedVars, lifeVars, fetchVars, marketVars>>

\* main(), lines 19-38: with --dev os.environ["DEMO_MODE"] is set to "true";
\* then the Scheduler is constructed.
MainDev ==
    /\ spc = "main"
    /\ env_DEMO_MODE' = IF dev THEN "true" ELSE env_DEMO_MODE
    /\ spc' = "created"
    /\ UNCHANGED <<clock, mode, user_type, is_running, jobs, tasks, syncLeft, cur,
                   curEntry, todo, passStarted, passFinished, tickDue, tickRan,
                   threw, ranAfter, stopEntry, watch, wStart, wEnd, exit_code,
                   dev, DEMO_MODE, served, limVars, runVars, rschedVars, lifeVars, fetchVars, marketVars>>

\* A market data handler is executing: as a coroutine of the run_all_now pass
\* or called by run_pending.
MarketRunning ==
    \/ \E i \in DOMAIN tasks : tasks[i].job \in MarketJobs /\ tasks[i].st = "suspended"
    \/ cur \in MarketJobs

\* MarketDataFetcher.fetch_with_rate_limit, lines 57-62: "if DEMO_MODE" reads
\* the module constant; demo data are generated or the live request is made.
MarketFetch ==
    /\ MarketRunning
    /\ served' = IF DEMO_MODE THEN "demo" ELSE "live"
    /\ UNCHANGED <<clock, schedVars, exit_code, dev, env_DEMO_MODE, DEMO_MODE,
                   limVars, runVars, rschedVars, lifeVars, fetchVars, marketVars>>

NextDemo ==
    \/ ImportScheduler
    \/ MainDev
    \/ MarketFetch
    \/ NextSched

----------------------------------------------------------------------------
\* MarketDataFetcher and FundamentalAnalyzer: the minimum-interval limiter

\* min_request_interval in clock ticks (0.5 s and 12 s in the source).
MinInterval == 2
\* The last clock value at which a fetch method is called.
MaxMarketClock == 6

FetcherClasses == {"MarketDataFetcher", "FundamentalAnalyzer"}

\* The methods of each class that make a request.
FetchPaths(cls) ==
    IF cls = "MarketDataFetcher"
    THEN {"fetch_market_data", "fetch_top_gainers_losers",
          "fetch_earnings_calendar", "fetch_digital_currency"}
    ELSE {"fetch_income_statement"}

\* The method tests DEMO_MODE before it does anything else: fetch_with_rate_limit
\* of MarketDataFetcher does (line 60), fetch_earnings_calendar, which calls
\* requests.get itself, and FundamentalAnalyzer do not.
ChecksDemoMode(cls, path) ==
    cls = "MarketDataFetcher" /\ path # "fetch_earnings_calendar"

\* No fetcher instance is exercised.
MarketOff ==
    /\ mclass = "none"
    /\ mpc = "off"
    /\ mpath = "none"
    /\ last_request_time = 0
    /\ mwake = 0
    /\ lastNet = -1
    /\ lastOk = FALSE
    /\ tooClose = FALSE

\* __init__: last_request_time = 0.
MarketInit ==
    /\ mclass \in FetcherClasses
    /\ mpc = "idle"
    /\ mpath = "none"
    /\ last_request_time = 0
    /\ mwake = 0
    /\ lastNet = -1
    /\ lastOk = FALSE
    /\ tooClose = FALSE

\* A fetch method is called: demo data are returned at once, or the time since
\* last_request_time is compared with min_request_interval and the method
\* sleeps for what is missing.
MarketCall(path) ==
    /\ mpc = "idle"
    /\ clock <= MaxMarketClock
    /\ path \in FetchPaths(mclass)
    /\ mpath' = path
    /\ IF ChecksDemoMode(mclass, path) /\ DEMO_MODE = TRUE
       THEN UNCHANGED <<mpc, mwake>>
       ELSE IF clock - last_request_time < MinInterval
       THEN /\ mpc' = "sleeping"
            /\ mwake' = clock + (MinInterval - (clock - last_request_time))
       ELSE /\ mpc' = "request"
            /\ UNCHANGED mwake
    /\ UNCHANGED <<clock, mclass, last_request_time, lastNet, lastOk, tooClose,
                   limVars, schedVars, exit_code, runVars, rschedVars, lifeVars, fetchVars, demoVars>>

\* time.sleep(sleep_time) returns.
MarketSleepEnd ==
    /\ mpc = "sleeping"
    /\ clock >= mwake
    /\ mpc' = "request"
    /\ UNCHANGED <<clock, mclass, mpath, last_request_time, mwake, lastNet, lastOk,
                   tooClose, limVars, schedVars, exit_code, runVars, rschedVars, lifeVars, fetchVars,
                   demoVars>>

\* requests.get is issued and answered d ticks later; raise_for_status passes
\* and last_request_time is set to the time of the answer, or the request
\* fails (RequestException) and the method returns without setting it.
MarketRequest(ok, d) ==
    /\ mpc = "request"
    /\ d = 1 => clock < MaxMarketClock
    /\ lastNet' = clock
    /\ lastOk' = ok
    /\ tooClose' = (tooClose \/ (lastNet # -1 /\ clock - lastNet < MinInterval))
    /\ clock' = clock + d
    /\ last_request_time' = IF ok THEN clock' ELSE last_request_time
    /\ mpc' = "idle"
    /\ UNCHANGED <<mclass, mpath, mwake, limVars, schedVars, exit_code, runVars, rschedVars, lifeVars,
                   fetchVars, demoVars>>

\* Time passes between two calls and during a sleep.
MarketTick ==
    /\ \/ mpc = "idle" /\ clock < MaxMarketClock
       \/ mpc = "sleeping" /\ clock < mwake
    /\ clock' = clock + 1
    /\ UNCHANGED <<marketVars, limVars, schedVars, exit_code, runVars, rschedVars, lifeVars, fetchVars,
                   demoVars>>

NextMarket ==
    \/ \E path \in FetchPaths("MarketDataFetcher") \cup FetchPaths("FundamentalAnalyzer") :
          MarketCall(path)
    \/ MarketSleepEnd
    \/ \E ok \in BOOLEAN, d \in {0, 1} : MarketRequest(ok, d)
    \/ MarketTick

----------------------------------------------------------------------------
\* Specifications

\* One process: the scheduler (main_scheduler.py) or the one-shot runner
\* (run_all_fetchers.py --mode once).
Init ==
    /\ clock = 0
    /\ LimiterOff
    /\ exit_code = NoExit
    /\ \/ SchedInit /\ RunnerOff
       \/ SchedOff /\ RunnerInit
    /\ FetchOff
    /\ DemoOff
    /\ MarketOff

Next == NextSched \/ NextRunner

Spec == Init /\ [][Next]_vars

\* One limiter, one caller issuing wait_if_needed() calls.
InitLimiter ==
    /\ clock = 0
    /\ LimiterInit
    /\ SchedOff
    /\ RunnerOff
    /\ FetchOff
    /\ exit_code = NoExit
    /\ DemoOff
    /\ MarketOff

NextLimiter ==
    \/ \E c \in Callers : WaitCheck(c)
    \/ \E c \in Callers : SleepStart(c)
    \/ \E c \in Callers : SleepEnd(c)
    \/ \E c \in Callers : RecordCall(c)
    \/ LimiterTick

SpecLimiter == InitLimiter /\ [][NextLimiter]_vars

\* The caller goes on executing once it is inside wait_if_needed, and time
\* passes.
SpecLimiterFair ==
    /\ SpecLimiter
    /\ WF_vars(\E c \in Callers : SleepStart(c))
    /\ WF_vars(\E c \in Callers : SleepEnd(c))
    /\ WF_vars(\E c \in Callers : RecordCall(c))
    /\ WF_vars(LimiterTick)

\* The executions of run_economic_report_fetcher of one scheduler process, one
\* after another, each with the http_limiter of its own fetcher.
NextJobs ==
    \/ NextLimiter
    \/ NewEconomicReportFetcher

SpecJobs == InitLimiter /\ [][NextJobs]_vars

\* One limiter shared by two threads that call wait_if_needed().
NextConcurrent ==
    \/ \E c \in Threads : WaitCheck(c)
    \/ \E c \in Threads : SleepStart(c)
    \/ \E c \in Threads : SleepEnd(c)
    \/ \E c \in Threads : RecordCall(c)
    \/ LimiterTick

SpecConcurrent == InitLimiter /\ [][NextConcurrent]_vars

\* The scheduler of a trader, one of its schedule entries watched.
InitCadence ==
    /\ clock = 0
    /\ LimiterOff
    /\ exit_code = NoExit
    /\ SchedInitWatching
    /\ RunnerOff
    /\ FetchOff
    /\ DemoOff
    /\ MarketOff

SpecCadence == InitCadence /\ [][NextSched]_vars

\* The scheduler process from its start, as a trader, with or without --dev.
InitDemo ==
    /\ clock = 0
    /\ LimiterOff
    /\ exit_code = NoExit
    /\ SchedLoading
    /\ RunnerOff
    /\ FetchOff
    /\ dev \in BOOLEAN
    /\ env_DEMO_MODE \in EnvValues
    /\ DEMO_MODE = "unbound"
    /\ served = "none"
    /\ MarketOff

SpecDemo == InitDemo /\ [][NextDemo]_vars

\* The clock ticks a run of the lifecycle lasts.
LifeTicks == 3

\* The clock ticks a run of the fair scheduler lasts.
FairTicks == 5

\* A scheduler process that is started late in the model's day.
InitFair ==
    /\ clock = MaxTime - FairTicks
    /\ LimiterOff
    /\ exit_code = NoExit
    /\ SchedInit
    /\ RunnerOff
    /\ FetchOff
    /\ DemoOff
    /\ MarketOff

\* The process is single-threaded and goes on executing: every awaited
\* coroutine and every handler returns, time.sleep(1) returns, and the loop
\* tests its flag again.
SpecFair ==
    /\ InitFair
    /\ [][NextSched]_vars
    /\ WF_vars(\E i \in DOMAIN tasks : TaskStep(i))
    /\ WF_vars(\E i \in DOMAIN tasks : TaskResume(i))
    /\ WF_vars(GatherDone)
    /\ WF_vars(SyncBegin)
    /\ WF_vars(SyncEnd)
    /\ WF_vars(PassReturn)
    /\ WF_vars(LoopTest)
    /\ WF_vars(RunJobBegin)
    /\ WF_vars(RunJobEnd)
    /\ WF_vars(RunPendingReturn)
    /\ WF_vars(Sleep)

\* A trader scheduler that its caller starts.
InitLifecycle ==
    /\ clock = MaxTime - LifeTicks
    /\ LimiterOff
    /\ exit_code = NoExit
    /\ SchedInit
    /\ mode = "start"
    /\ user_type = "trader"
    /\ RunnerOff
    /\ FetchOff
    /\ DemoOff
    /\ MarketOff

SpecLifecycle == InitLifecycle /\ [][NextLifecycle]_vars

\* run_all_fetchers.py --mode scheduled
InitScheduled ==
    /\ clock = 0
    /\ LimiterOff
    /\ exit_code = NoExit
    /\ SchedOff
    /\ rpc = "created"
    /\ fetcher_arg \in FetcherArgs
    /\ fetcher_instances = {}
    /\ ridx = 1
    /\ rqueue = <<>>
    /\ rcur = NoJob
    /\ results = [f \in Fetchers |-> Unset]
    /\ routcome = [f \in Fetchers |-> Unset]
    /\ rstarted = [f \in Fetchers |-> 0]
    /\ rmode = "scheduled"
    /\ runner_is_running = FALSE
    /\ rjobs = <<>>
    /\ FetchOff
    /\ DemoOff
    /\ MarketOff

SpecScheduled == InitScheduled /\ [][NextScheduled]_vars

\* One fetcher instance whose fetch methods are called one after another; the
\* clock is the epoch time, far from 0 when the instance is made.
InitMarket ==
    /\ clock = MinInterval
    /\ LimiterOff
    /\ exit_code = NoExit
    /\ SchedOff
    /\ RunnerOff
    /\ FetchOff
    /\ dev = FALSE
    /\ env_DEMO_MODE = "unset"
    /\ DEMO_MODE \in BOOLEAN
    /\ served = "none"
    /\ MarketInit

SpecMarket == InitMarket /\ [][NextMarket]_vars

\* One process issuing calls of one of the retrying fetch functions, one after
\* another; fetch_with_retry is the one with a limiter.
InitFetch ==
    /\ clock = 0
    /\ FetchInit
    /\ IF fn = "fetch_with_retry" THEN LimiterInit ELSE LimiterOff
    /\ SchedOff
    /\ RunnerOff
    /\ exit_code = NoExit
    /\ DemoOff
    /\ MarketOff

SpecFetch == InitFetch /\ [][NextFetch]_vars

----------------------------------------------------------------------------
\* C1: in a run of wait_if_needed() calls on one limiter, no window of length
\* Window (half open, [s, s + Window)) holds more than calls_per_minute recorded
\* call timestamps.
RecordedInWindow(s) ==
    {k \in 1..Len(recorded) : s <= recorded[k] /\ recorded[k] < s + Window}

C1_SlidingWindow ==
    \A s \in 0..(MaxClock + Window) :
        Cardinality(RecordedInWindow(s)) <= calls_per_minute

\* The limit was reached by calls made back to back, the next call was held
\* back and recorded exactly one window after the oldest one.
C1_Witness ==
    /\ Len(recorded) > calls_per_minute
    /\ recorded[calls_per_minute] = recorded[1]
    /\ recorded[calls_per_minute + 1] = recorded[1] + Window

----------------------------------------------------------------------------
\* Executions of job j under way: suspended coroutines of the gather and the
\* handler executing synchronously.
InFlight(j) ==
    Cardinality({i \in DOMAIN tasks : tasks[i].job = j /\ tasks[i].st = "suspended"})
        + (IF cur = j THEN 1 ELSE 0)

PassJobs(ut) ==
    {AsyncTasks(ut)[i] : i \in 1..Len(AsyncTasks(ut))}
        \cup {SyncTasks(ut)[i] : i \in 1..Len(SyncTasks(ut))}

AfterPass == spc \in {"while", "run_pending", "sleep", "exited"}

\* Job j has been run for two entries in the run_pending under way.
RanTwice(j) ==
    \E i, k \in 1..Len(tickRan) :
        i < k /\ jobs[tickRan[i]].job = j /\ jobs[tickRan[k]].job = j

C3_JobIsolation ==
    /\ spc # "crashed"
    /\ spc = "sleep" => {tickRan[i] : i \in 1..Len(tickRan)} = tickDue
    /\ AfterPass => \A j \in PassJobs(user_type) : passFinished[j] = 1
    /\ (rpc = "exited" /\ fetcher_arg = NoArg) => \A f \in Fetchers : results[f] # Unset

\* A tick is over in which a handler raised and another handler was run after it.
C3_Witness == spc = "sleep" /\ threw /\ ranAfter /\ Len(tickRan) >= 2

\* C6 (as claimed): a one-shot process ends with exit status 0 exactly when no
\* job of it failed.
C6_ExitCodeReflectsFailure ==
    /\ rpc = "exited" => (exit_code = 0 <=> \A f \in Fetchers : results[f] # "False")
    /\ (spc = "exited" /\ mode \in {"once", "test"}) => (exit_code = 0 <=> ~threw)

\* C7: when run_all_fetchers has returned, results has one entry per fetcher of
\* FETCHERS, an entry is True exactly when that fetcher's own run succeeded,
\* and the failures number the fetchers that raised, returned False or have no
\* instance.
Failed == {f \in Fetchers : routcome[f] \in {"falsy", "raise", "noinit"}}

C7_ResultMap ==
    /\ \A f \in Fetchers :
        results[f] # Unset => (results[f] = "True" <=> routcome[f] = "ok")
    /\ (rpc = "exited" /\ fetcher_arg = NoArg) =>
        /\ \A f \in Fetchers : results[f] \in {"True", "False"}
        /\ Cardinality({f \in Fetchers : results[f] = "False"}) = Cardinality(Failed)
        /\ Cardinality({f \in Fetchers : results[f] = "True"})
               = Len(FETCHERS) - Cardinality(Failed)

\* The pass is over with one failure among the six fetchers.
C7_Witness ==
    /\ rpc = "exited"
    /\ fetcher_arg = NoArg
    /\ Cardinality(Failed) = 1
    /\ Cardinality({f \in Fetchers : results[f] = "True"}) = 5

\* C8: when run_all_now (run_all_fetchers) has returned, every job that
\* schedule_jobs registers for the user type (every fetcher of FETCHERS) has
\* been started exactly once and has ended, and no other job was run; no
\* entry needs to be due for that.
C8_RunAllNow ==
    /\ AfterPass =>
        \A j \in Jobs :
            /\ passStarted[j] = (IF j \in RegisteredJobs(user_type) THEN 1 ELSE 0)
            /\ passFinished[j] = passStarted[j]
    /\ (rpc = "exited" /\ fetcher_arg = NoArg) =>
        \A f \in Fetchers : rstarted[f] = 1 /\ routcome[f] # Unset

\* The startup pass of a scheduler with both user types has returned, and no
\* schedule entry is due yet.
C8_Witness ==
    /\ spc = "while"
    /\ user_type = "both"
    /\ Due(jobs, clock) = {}

\* C9 (as claimed): while a job of the pass is under way and another job of
\* the pass has not been started, that job can be started without waiting.
C9_ConcurrentDispatch ==
    /\ (/\ spc \in {"gather", "sync"}
        /\ \E j \in Jobs : InFlight(j) > 0
        /\ \E k \in PassJobs(user_type) : passStarted[k] = 0)
       => ENABLED ((\E i \in DOMAIN tasks : TaskStep(i)) \/ SyncBegin)
    /\ (rpc = "run" /\ rcur # NoJob /\ Len(rqueue) > 1) => ENABLED RunFetcherBegin

\* C9 (amended): the coroutines of run_all_now are started together, a
\* suspended one not delaying the next; a synchronous handler is started only
\* when every coroutine has ended and nothing else of the pass is under way;
\* run_all_fetchers has one fetcher under way at a time, in FETCHERS order.
C9_SequentialAfterGather ==
    /\ (spc = "gather" /\ \E i \in DOMAIN tasks : tasks[i].st = "pending")
       => ENABLED (\E i \in DOMAIN tasks : TaskStep(i))
    /\ \A j \in Jobs :
        (spc \in {"gather", "sync"} /\ cur = j) =>
            /\ \A i \in DOMAIN tasks : tasks[i].st = "finished"
            /\ \A k \in Jobs \ {j} : passStarted[k] = passFinished[k]
    /\ \A i \in 1..Len(FETCHERS) :
        (fetcher_arg = NoArg /\ rcur = FETCHERS[i]) =>
            /\ \A k \in 1..(i - 1) : results[FETCHERS[k]] # Unset
            /\ \A k \in (i + 1)..Len(FETCHERS) : rstarted[FETCHERS[k]] = 0

\* A synchronous handler of the pass executes, after the coroutines.
C9_Witness ==
    /\ spc = "sync"
    /\ cur = "run_fundamental_analyzer"
    /\ Len(tasks) = 6

\* C10: start() sets is_running (only a stop() call clears it), and the tick loop is reached only when the
\* run_all_now pass has run every job of the pass to its end; no schedule
\* entry is run before that.
C10_PassBeforeLoop ==
    /\ (mode = "start" /\ spc \in {"gather", "sync", "while", "run_pending", "sleep"})
       => (is_running \/ stopEntry # -1)
    /\ spc \in {"while", "run_pending", "sleep"} =>
        /\ \A i \in DOMAIN tasks : tasks[i].st = "finished"
        /\ syncLeft = <<>>
        /\ \A j \in PassJobs(user_type) : passStarted[j] = 1 /\ passFinished[j] = 1
    /\ spc \in {"gather", "sync"} =>
        /\ tickRan = <<>>
        /\ \A i \in DOMAIN jobs : jobs[i].next_run = jobs[i].every

\* The first run_pending that finds runnable entries, after the pass.
C10_Witness ==
    /\ mode = "start"
    /\ spc = "run_pending"
    /\ todo # <<>>
    /\ \A j \in PassJobs(user_type) : passFinished[j] = 1

----------------------------------------------------------------------------
\* The call under way has ended by reporting a failure to its caller: an
\* exception, or the None that _fetch_with_backoff returns after logging it.
SurfacedFailure ==
    \/ fres = "raise"
    \/ fn = "_fetch_with_backoff" /\ fres = "return None"

\* C4 (as claimed): a call whose every attempt was a failed request has made
\* exactly MaxAttempts requests when it ends, and ends by reporting a failure to
\* its caller.
C4_RetryBound ==
    (fpc = "return" /\ failedAll) =>
        (netCalls = MaxAttempts(fn) /\ SurfacedFailure)

\* C5 (as claimed): when make_request has fetched and stored a response and the
\* same request is made again before CacheExpiry has passed, the second call
\* makes no request, whatever the payload.
C5_CacheHit ==
    (/\ fpc \in {"attempt", "backoff", "return"}
     /\ fn = "make_request"
     /\ prev.fn = "make_request"
     /\ prev.key = fkey
     /\ prev.res = "response"
     /\ prev.net = 1
     /\ fstart < prev.stored + CacheExpiry)
    => netCalls = 0

----------------------------------------------------------------------------
\* C11: stop() changes nothing but the running flag; the handler executing when
\* it is called runs to its end and so does the rest of that tick; once the
\* loop test has seen the flag cleared no run_pending is started.
C11_StopOnlyClearsFlag ==
    /\ [][(is_running /\ ~is_running' /\ spc' \notin {"stopped", "crashed"})
            => UNCHANGED <<spc, cur, curEntry, todo, tasks, syncLeft, jobs, tickRan>>]_vars
    /\ [][(spc = "while" /\ ~is_running) => spc' # "run_pending"]_vars
    /\ []((stopEntry > 0 /\ spc \in {"sleep", "while", "exited"})
            => \E i \in 1..Len(tickRan) : tickRan[i] = stopEntry)
    /\ []((~is_running /\ spc \in {"sleep", "while", "exited"})
            => \A e \in tickDue : \E i \in 1..Len(tickRan) : tickRan[i] = e)

\* start() has returned after a stop() that was called while an entry's handler
\* executed: that handler ended, and another entry of the tick was run after it.
C11_Witness ==
    /\ mode = "start"
    /\ spc = "exited"
    /\ stopEntry > 0
    /\ \E i \in 1..(Len(tickRan) - 1) : tickRan[i] = stopEntry

----------------------------------------------------------------------------
\* C12 (as claimed): while a handler executes in the tick loop and another
\* entry is runnable, that entry can be started without waiting for the handler
\* to return.
C12_SlowJobDoesNotBlock ==
    (/\ spc = "run_pending"
     /\ cur # NoJob
     /\ Due(jobs, clock) \ {curEntry} # {})
    => ENABLED RunJobBegin

\* C12 (amended): the tick loop executes handlers inline: while one executes,
\* no other entry is started and the list of entries still to run is left
\* alone, until the handler has returned (or the process is interrupted).
C12_InlineExecution ==
    [][(spc = "run_pending" /\ cur # NoJob) =>
          /\ cur' \in {cur, NoJob}
          /\ cur' = cur => (curEntry' = curEntry /\ todo' = todo /\ tickRan' = tickRan)
          /\ (cur' = NoJob /\ spc' = "run_pending") => todo' = todo]_vars

\* A handler has taken time, and an entry that became runnable meanwhile is
\* waiting: it was not runnable when this run_pending began.
C12_Witness ==
    /\ spc = "run_pending"
    /\ tickRan # <<>>
    /\ \E e \in Due(jobs, clock) : e \notin tickDue

----------------------------------------------------------------------------
\* The loop test has found the flag set and run_pending collects its entries.
TickBegins == spc = "while" /\ spc' = "run_pending"

\* run_pending's run of the watched entry returns.
WatchedRunEnds ==
    /\ watch # 0
    /\ spc = "run_pending"
    /\ curEntry = watch
    /\ spc' = "run_pending"
    /\ cur' = NoJob

\* C13 (as claimed): at every tick the watched entry is run exactly when its
\* job has never run or its cadence has elapsed since the job was last started
\* (no job is running at a tick).
C13_DueByCadence ==
    [][(TickBegins /\ watch # 0) =>
          (watch \in tickDue' <=>
              (wStart = -1 \/ clock - wStart >= jobs[watch].every))]_vars

\* C13 (amended): at every tick the watched entry is run exactly when the
\* clock has reached its next_run: its cadence after schedule_jobs registered
\* it (at time 0) while run_pending has not run it, its cadence after its last
\* run by run_pending returned otherwise; the startup pass runs the job at
\* start and leaves next_run alone; only entries runnable when the tick began
\* are run in it.
C13_DueByNextRun ==
    /\ [][(TickBegins /\ watch # 0) =>
            (watch \in tickDue' <=>
                clock >= (IF wEnd = -1 THEN 0 ELSE wEnd) + jobs[watch].every)]_vars
    /\ [](\A i \in 1..Len(tickRan) : tickRan[i] \in tickDue)
    /\ []((watch # 0 /\ spc \in {"gather", "sync"} /\ jobs # <<>>)
            => jobs[watch].next_run = jobs[watch].every)

\* The hourly entry (4 ticks) is runnable at a tick for the second time.
C13_Witness ==
    /\ spc = "run_pending"
    /\ watch # 0
    /\ jobs[watch].every = 4
    /\ watch \in tickDue
    /\ wEnd # -1

\* C14 (as claimed): when a run of the watched entry has returned, its next
\* run is due one cadence after the time the run was started.
C14_StartToStart ==
    [][WatchedRunEnds => jobs'[watch].next_run = wStart + jobs[watch].every]_vars

\* C14 (amended): when a run of the watched entry has returned, its next run
\* is due one cadence after the time the handler returned, so the time a
\* handler takes is added to the distance between two starts.
C14_CompletionToStart ==
    /\ [][WatchedRunEnds => jobs'[watch].next_run = clock' + jobs[watch].every]_vars
    /\ []((watch # 0 /\ wEnd # -1) => jobs[watch].next_run = wEnd + jobs[watch].every)
    /\ [][(watch # 0 /\ wEnd # -1 /\ spc = "run_pending" /\ curEntry' = watch)
            => clock >= wEnd + jobs[watch].every]_vars

\* A run of the watched entry took one tick; its next run is due one cadence
\* after its end.
C14_Witness ==
    /\ watch # 0
    /\ spc = "run_pending"
    /\ cur = NoJob
    /\ wStart >= 0
    /\ wEnd = wStart + 1
    /\ jobs[watch].next_run = wEnd + jobs[watch].every

----------------------------------------------------------------------------
\* C15: the scheduler is Running (is_running) or Stopped; it becomes Running
\* only in start(), Stopped only by stop() (called by another caller, or by
\* main after a KeyboardInterrupt or an exception that left start()); a process
\* that is over is Stopped; a handler body that raises changes neither the
\* flag nor the position of the loop.
C15_RunningStopped ==
    /\ [](is_running \in BOOLEAN)
    /\ [](spc \in {"stopped", "crashed", "exited"} => ~is_running)
    /\ [][(~is_running /\ is_running') => (mode = "start" /\ spc = "created")]_vars
    /\ [][(is_running /\ ~is_running') =>
            (stopEntry' # stopEntry \/ spc' \in {"stopped", "crashed"})]_vars
    /\ [][(threw' /\ ~threw) => (is_running' = is_running /\ spc' = spc)]_vars

\* The loop of a started scheduler has ended after a stop() call; a handler of
\* its last tick had raised.
C15_Witness ==
    /\ mode = "start"
    /\ spc = "exited"
    /\ threw
    /\ tickRan # <<>>
    /\ stopEntry # -1

----------------------------------------------------------------------------
\* C16 (as claimed): a call that has used up its attempts, each a failed
\* request, ends with an error for its caller (an exception carrying the
\* failure), never with a value returned the ordinary way.
C16_ExhaustionIsAnError ==
    (fpc = "return" /\ failedAll /\ netCalls = MaxAttempts(fn)) => fres = "raise"

----------------------------------------------------------------------------
\* Every recorded timestamp that is still inside the window is in call_times,
\* as often as it was recorded.
NoTimestampLost ==
    \A k \in 1..Len(recorded) :
        clock - recorded[k] < Window =>
            Cardinality({i \in 1..Len(call_times) : call_times[i] = recorded[k]})
                >= Cardinality({i \in 1..Len(recorded) : recorded[i] = recorded[k]})

WithinLimit ==
    \A s \in 0..(MaxClock + Window) :
        Cardinality(RecordedInWindow(s)) <= calls_per_minute

\* C17 (as claimed): with two threads calling wait_if_needed() on one limiter,
\* under any interleaving, no timestamp is lost and no window holds more than
\* calls_per_minute recorded calls.
C17_ConcurrentSafe == NoTimestampLost /\ WithinLimit

\* C17 (amended): the limiter has no lock; as long as no call has begun while
\* another caller was inside wait_if_needed(), no timestamp is lost and no
\* window holds more than calls_per_minute recorded calls.
C17_SafeWhenCallsDoNotOverlap == ~overlapped => (NoTimestampLost /\ WithinLimit)

\* The limit has been reached by calls that did not overlap, and the second
\* thread is made to sleep while the first is outside wait_if_needed().
C17_Witness ==
    /\ ~overlapped
    /\ Len(recorded) >= calls_per_minute
    /\ lpc["c1"] = "idle"
    /\ lpc["c2"] = "sleeping"
    /\ lsleep["c2"] > 0

\* C18: wait_if_needed() raises nothing and returns: a call that has begun
\* ends, the sleep it asks for is at most one window long, and it appends
\* exactly one timestamp, as its last statement.
C18_BoundedWait ==
    /\ \A c \in Callers : (lpc[c] # "idle") ~> (lpc[c] = "idle")
    /\ [](\A c \in Callers : lsleep[c] >= 0 /\ lsleep[c] <= Window)
    /\ [](\A c \in Callers : lpc[c] \in {"sleep", "sleeping"} => lsleep[c] > 0)
    /\ [][\A c \in Callers :
            /\ (lpc[c] = "append" /\ lpc'[c] = "idle")
                  => Len(recorded') = Len(recorded) + 1
            /\ (lpc[c] # "append" /\ lpc'[c] # lpc[c])
                  => recorded' = recorded]_vars

\* A call has slept one whole window and is at its last statement.
C18_Witness ==
    /\ lpc["c1"] = "append"
    /\ lsleep["c1"] = Window
    /\ clock >= lwake["c1"]
    /\ Len(recorded) >= 1

----------------------------------------------------------------------------
\* C19: a make_request lookup at or after the entry's expire_time is a miss:
\* with the API key set the step that follows is a network call, never a
\* return from the cache, and a response returned is that of a new network
\* call whose payload replaces the entry, expiring CacheExpiry after now.
C19_ExpiredIsMiss ==
    [][(/\ fn = "make_request"
        /\ fpc = "attempt"
        /\ cache[fkey].payload # NoPayload
        /\ clock >= cache[fkey].expire_time)
       => /\ api_key_set => netCalls' = netCalls + 1
          /\ fres' = "response"
                => /\ netCalls' = netCalls + 1
                   /\ cache'[fkey].payload # NoPayload
                   /\ cache'[fkey].expire_time = clock + CacheExpiry]_vars

\* The request before this one was answered from the cache; the same request,
\* made after the entry had expired, has been answered by one network call and
\* the entry has its new expiry.
C19_Witness ==
    /\ fn = "make_request"
    /\ fpc = "return"
    /\ fres = "response"
    /\ netCalls = 1
    /\ prev.fn = "make_request"
    /\ prev.key = fkey
    /\ prev.res = "response"
    /\ prev.net = 0
    /\ cache[fkey].expire_time = clock + CacheExpiry
    /\ fstart > prev.stored

----------------------------------------------------------------------------
\* C20: the outcome of a job is read by nothing that dispatches. Whatever a
\* handler's outcome, the step in which it ends leaves the same control state,
\* a function of the state before it and of the time it took: in the tick loop
\* the entry's next_run is the time of return plus its interval and the rest
\* of the tick's runnable entries is as it was; in the pass the remaining
\* handlers are as they were; in the runner the queue moves on by one. What is
\* dispatched next is a function of that control state alone. Two runs with
\* equal durations hence dispatch the same jobs at the same times.
C20_OutcomeBlindDispatch ==
    [][/\ (spc = "run_pending" /\ cur # NoJob /\ cur' = NoJob /\ spc' # "stopped")
            => /\ spc' = "run_pending"
               /\ is_running' = is_running
               /\ todo' = todo
               /\ jobs' = [jobs EXCEPT
                             ![curEntry].next_run = clock' + jobs[curEntry].every]
       /\ (spc = "sync" /\ cur # NoJob /\ cur' = NoJob /\ spc' # "stopped")
            => /\ spc' = "sync"
               /\ is_running' = is_running
               /\ syncLeft' = syncLeft
               /\ jobs' = jobs
       /\ (spc = "gather" /\ tasks' # tasks /\ spc' # "stopped")
            => /\ spc' = "gather"
               /\ is_running' = is_running
               /\ jobs' = jobs
               /\ \A i \in DOMAIN tasks : tasks'[i].job = tasks[i].job
       /\ (spc = "while" /\ spc' = "run_pending")
            => todo' = SortedRunnable(jobs, Due(jobs, clock))
       /\ (spc = "run_pending" /\ cur = NoJob /\ cur' # NoJob)
            => cur' = jobs[Head(todo)].job /\ clock' = clock
       /\ (spc = "sync" /\ cur = NoJob /\ cur' # NoJob)
            => cur' = Head(syncLeft) /\ clock' = clock
       /\ (rpc = "run" /\ rcur # NoJob /\ rcur' = NoJob)
            => rqueue' = Tail(rqueue) /\ rpc' = rpc
       /\ (rpc = "run" /\ rcur = NoJob /\ rcur' # NoJob)
            => rcur' = Head(rqueue)]_vars

\* In a tick a handler has raised, the entry it was run for has its next_run
\* one interval after the handler's return, and the next runnable entry of the
\* tick has been dispatched.
C20_Witness ==
    /\ spc = "run_pending"
    /\ threw
    /\ ranAfter
    /\ cur # NoJob
    /\ Len(tickRan) >= 1
    /\ \A i \in 1..Len(tickRan) :
          jobs[tickRan[i]].next_run >= clock + jobs[tickRan[i]].every - 1

----------------------------------------------------------------------------
\* C21 (as claimed): in one-shot mode with --fetcher given, run_fetcher is
\* called for the first fetcher whose lowered name equals the lowered
\* argument, once, and main goes on only after it has returned; it is called
\* for no other fetcher, and for no fetcher at all when no name matches.
C21_RunOneNow ==
    fetcher_arg # NoArg =>
        /\ \A f \in Fetchers :
              rstarted[f] <= (IF /\ Matching(fetcher_arg) # {}
                                 /\ f = FETCHERS[FirstMatch(fetcher_arg)]
                              THEN 1 ELSE 0)
        /\ rpc = "exited" =>
              /\ rcur = NoJob
              /\ \A f \in Fetchers :
                    (Lower(f) = Lower(fetcher_arg)) => rstarted[f] = 1

----------------------------------------------------------------------------
\* C22 (as claimed): in a scheduler process started with --dev, once main has
\* set the flag, the DEMO_MODE that fetch_with_rate_limit consults is true and
\* every call of it serves demo data.
C22_DevServesDemo ==
    (dev /\ spc \notin {"loading", "main"}) =>
        /\ DEMO_MODE = TRUE
        /\ served \in {"none", "demo"}

----------------------------------------------------------------------------
\* C23 (as claimed): fetch_with_retry passes the limiter before each of its
\* requests, the retries included: a call has made no more requests than
\* wait_if_needed() calls, and the requests of one call that fall inside one
\* window number at most calls_per_minute.
C23_AcquirePerAttempt ==
    fn = "fetch_with_retry" =>
        /\ netCalls <= acquired
        /\ clock - fstart < Window => netCalls <= calls_per_minute

----------------------------------------------------------------------------
\* The baseDelay and maxDelay of each function's schedule: the first wait it
\* is written with (2 ** 0, retry_delay = 60, retry_delay = 1, multiplier = 1)
\* and its cap (max = 10 for make_request, none elsewhere).
ScheduleBase(f) ==
    CASE f = "fetch_with_retry" -> 1
      [] f = "fetch_with_rate_limit" -> 60
      [] f = "_fetch_with_backoff" -> 1
      [] f = "make_request" -> 1

ScheduleCap(f) == IF f = "make_request" THEN 10 ELSE 960

\* C24 (as claimed): a wait follows the failed attempt a only when a is not
\* the last attempt, and it lasts min(maxDelay, baseDelay * 2^a).
C24_BackoffSchedule ==
    fpc = "backoff" =>
        /\ attempt < MaxAttempts(fn) - 1
        /\ wait = (IF ScheduleBase(fn) * 2 ^ attempt < ScheduleCap(fn)
                   THEN ScheduleBase(fn) * 2 ^ attempt
                   ELSE ScheduleCap(fn))

----------------------------------------------------------------------------
\* The seconds the provider asks for after throttling: the 10-second sleep of
\* _fetch_with_backoff (line 55), the 60 seconds of Alpha Vantage's limit.
Cooldown(f) == IF f = "_fetch_with_backoff" THEN 10 ELSE 60

Larger(a, b) == IF a > b THEN a ELSE b

ThrottledWait == fpc = "backoff" /\ lastOut = "throttled"

\* C25 (as claimed): after a throttling response the wait before the next
\* attempt is the larger of the provider cooldown and the backoff of that
\* attempt.
C25_ThrottledWaitIsLarger ==
    ThrottledWait => wait = Larger(Cooldown(fn), retry_delay)

\* C25 (amended): a throttling response is never raised or returned as it is:
\* the function sleeps and attempts again while attempts are left. The sleep is
\* never shorter than the cooldown nor than the backoff retry_delay of that
\* attempt; for _fetch_with_backoff it is their sum, 10 + 2^a seconds, and for
\* fetch_with_rate_limit both are the constant 60 seconds.
C25_ThrottledWaitAtLeast ==
    /\ ThrottledWait =>
          /\ wait >= Cooldown(fn)
          /\ wait >= retry_delay
          /\ fn = "_fetch_with_backoff" =>
                retry_delay = 2 ^ attempt /\ wait = Cooldown(fn) + retry_delay
          /\ fn = "fetch_with_rate_limit" => wait = 60 /\ retry_delay = 60
    /\ (lastOut = "throttled" /\ fpc = "return") =>
          /\ LoopExhausted(fn, attempt)
          /\ fres \in {"return None", "implicit None"}
    /\ (lastOut = "throttled" /\ fpc = "attempt") => attempt >= 1

\* SEC has answered 429 to the second request; the function sleeps 12 seconds.
C25_Witness ==
    /\ ThrottledWait
    /\ fn = "_fetch_with_backoff"
    /\ attempt = 1
    /\ wait = 12

----------------------------------------------------------------------------
\* C26 (as claimed): after its sleep wait_if_needed() makes the check again,
\* dropping the timestamps that have expired meanwhile, before it records.
C26_RetriesCheck ==
    [][\A c \in Callers :
          (lpc[c] = "sleeping" /\ lpc'[c] # "sleeping")
              => call_times' = FilterRecent(call_times, clock)]_vars

\* C26 (amended): when the window is full wait_if_needed() sleeps once, for
\* Window - (now - oldest timestamp), and then appends without a second check:
\* call_times still holds the expired timestamp. With one caller at a time the
\* timestamp is nevertheless recorded only when fewer than calls_per_minute
\* unexpired timestamps are in call_times.
C26_SleepsOnceThenRecords ==
    [][\A c \in Callers :
          /\ (lpc[c] = "idle" /\ lpc'[c] = "sleep")
                => /\ Len(call_times') >= calls_per_minute
                   /\ lsleep'[c] = Window - (clock - call_times'[1])
          /\ (lpc[c] = "sleeping" /\ lpc'[c] # "sleeping")
                => lpc'[c] = "append" /\ call_times' = call_times
          /\ (lpc[c] = "append" /\ lpc'[c] # "append")
                => /\ recorded' = Append(recorded, clock)
                   /\ Len(FilterRecent(call_times, clock)) < calls_per_minute]_vars

\* The caller has slept and is about to append; the timestamp that made the
\* window full has expired and is still in call_times.
C26_Witness ==
    /\ lpc["c1"] = "append"
    /\ lsleep["c1"] > 0
    /\ Len(call_times) >= calls_per_minute
    /\ clock - call_times[1] >= Window
    /\ Len(FilterRecent(call_times, clock)) < Len(call_times)

----------------------------------------------------------------------------
\* C27: a make_request that finds a live, truthy cache entry returns it in
\* its next step: no session.get is made (none of the call, none of the
\* session's rate limiting), no time passes, and the cache and every limiter
\* are as they were.
C27_CacheHitFrame ==
    [][(fn = "make_request" /\ fpc = "attempt" /\ CacheHit(fkey, clock))
          => /\ fpc' = "return"
             /\ fres' = "response"
             /\ netCalls' = netCalls
             /\ cache' = cache
             /\ limVars' = limVars
             /\ clock' = clock
             /\ wait' = wait]_vars

\* A call has been answered from the cache, at its first attempt and without
\* a request, from an entry stored by an earlier call and still live.
C27_Witness ==
    /\ fn = "make_request"
    /\ fpc = "return"
    /\ fres = "response"
    /\ netCalls = 0
    /\ attempt = 0
    /\ cache[fkey].payload = "data"
    /\ cache[fkey].expire_time > clock
    /\ prev.fn = "make_request"
    /\ prev.net >= 1

----------------------------------------------------------------------------
\* C28: the cache changes only when a make_request attempt has got a 2xx
\* response whose body was decoded: the entry of that request is set to the
\* payload, expiring CacheExpiry after now. An attempt that failed (transport
\* error, error status, undecodable body, missing key) leaves the cache as it
\* was, so what a later call is served from the cache is a decoded payload.
C28_OnlySuccessStored ==
    [][/\ cache' # cache
            => /\ fn = "make_request"
               /\ netCalls' = netCalls + 1
               /\ lastOut' = "ok"
               /\ fres' = "response"
               /\ \E p \in Payloads :
                     cache' = [cache EXCEPT ![fkey] =
                                  [payload |-> p, expire_time |-> clock + CacheExpiry]]
       /\ (fpc = "attempt" /\ fpc' # "attempt" /\ lastOut' # "ok" /\ fres' # "response")
            => cache' = cache]_vars

\* A request for a key whose entry has expired got a body that could not be
\* decoded; the expired entry is all the cache holds for the key.
C28_Witness ==
    /\ fn = "make_request"
    /\ fpc = "backoff"
    /\ lastOut = "malformed"
    /\ netCalls >= 1
    /\ cache[fkey].payload = "data"
    /\ cache[fkey].expire_time <= clock

----------------------------------------------------------------------------
\* C29 (as claimed): a make_request attempt that failed for good (a body
\* that cannot be decoded, or no API key) is the only attempt of its call: no
\* backoff wait follows it and the call has made at most one request.
C29_FatalNotRetried ==
    (fn = "make_request" /\ lastOut \in {"malformed", "raised"}) =>
        /\ fpc # "backoff"
        /\ attempt = 0
        /\ netCalls <= 1

----------------------------------------------------------------------------
\* C30 (as claimed): over the executions of run_economic_report_fetcher of one
\* process no window holds more than calls_per_minute recorded calls, because
\* the limiter's state outlives an execution: between two calls every
\* timestamp still inside the window is in call_times.
C30_LifetimeBudget ==
    /\ \A s \in 0..(MaxClock + Window) :
          Cardinality({k \in 1..Len(recorded) :
                          s <= recorded[k] /\ recorded[k] < s + Window})
              <= calls_per_minute
    /\ lpc["c1"] = "idle" =>
          \A k \in 1..Len(recorded) :
              clock - recorded[k] < Window =>
                  \E i \in 1..Len(call_times) : call_times[i] = recorded[k]

----------------------------------------------------------------------------
\* C31 (as claimed): with DEMO_MODE true a MarketDataFetcher issues no
\* requests.get, whichever fetch method is called, and its last_request_time
\* stays as __init__ left it.
C31_DemoNoLiveCall ==
    (mclass = "MarketDataFetcher" /\ DEMO_MODE = TRUE) =>
        /\ mpc \notin {"sleeping", "request"}
        /\ lastNet = -1
        /\ last_request_time = 0

----------------------------------------------------------------------------
\* C32 (as claimed): any two consecutive requests of one fetcher instance are
\* at least min_request_interval apart, whether the earlier one succeeded or
\* failed.
C32_MinimumInterval == ~tooClose

----------------------------------------------------------------------------
\* C33 (as claimed): the schedule holds at most one entry per job handler, so
\* that no job has two cadences.
C33_OneEntryPerJob ==
    \A i, k \in 1..Len(jobs) : jobs[i].job = jobs[k].job => i = k

----------------------------------------------------------------------------
\* run_pending starts the watched entry.
WatchedRunBegins ==
    /\ watch # 0
    /\ spc = "run_pending"
    /\ cur = NoJob
    /\ curEntry' = watch

\* The job of entry i has no other entry.
SingleEntry(i) == \A k \in 1..Len(jobs) : jobs[k].job = jobs[i].job => k = i

\* C34 (as claimed): the tick loop never starts the watched entry earlier than
\* its cadence after the last start of its job, the start in the startup pass
\* included.
C34_CadenceSinceLastStart ==
    [][WatchedRunBegins =>
          (wStart = -1 \/ clock - wStart >= jobs[watch].every)]_vars

\* C34 (amended): the tick loop never starts an entry earlier than its cadence
\* after schedule_jobs registered it (at time 0), nor earlier than its cadence
\* after the return of the entry's own previous run by the tick loop; for a job
\* with one entry that the tick loop has run before, this is at least one
\* cadence after the job's last start.  The start of the job in the startup
\* pass, and a run of the job for another entry, do not count.
C34_CadenceSinceRegistrationOrReturn ==
    /\ [][WatchedRunBegins =>
            clock >= (IF wEnd = -1 THEN 0 ELSE wEnd) + jobs[watch].every]_vars
    /\ [][(WatchedRunBegins /\ wEnd # -1 /\ SingleEntry(watch)) =>
            clock - wStart >= jobs[watch].every]_vars

\* The tick loop runs the watched entry for the first time: the last start of
\* its job before this one was in the startup pass, which took time.
C34_Witness ==
    /\ spc = "run_pending"
    /\ watch # 0
    /\ curEntry = watch
    /\ wEnd = -1
    /\ wStart = clock
    /\ clock = jobs[watch].every
    /\ passFinished[jobs[watch].job] = 1

----------------------------------------------------------------------------
\* Fetcher f has an entry in the runner's schedule that recurs every
\* schedule_hours(f) hours.
PeriodicEntry(f) ==
    \E i \in 1..Len(rjobs) :
        /\ rjobs[i].job = f
        /\ rjobs[i].tag = "none"
        /\ rjobs[i].unit = "hours"

\* C35 (as claimed): in scheduled mode schedule_fetchers ends without an error
\* and leaves an entry for every fetcher of FETCHERS.
C35_RegistersAll ==
    (rmode = "scheduled" /\ rpc \notin {"created", "init", "schedule_fetchers"})
        => /\ exit_code # 1
           /\ \A f \in Fetchers : PeriodicEntry(f)

----------------------------------------------------------------------------
\* C36 (as claimed): in scheduled mode every fetcher with an instance has been
\* run once when the process is past its startup, and an entry tagged
\* "startup_run" is in the schedule until its fetcher has run.
C36_StartupRunOfEach ==
    /\ (rmode = "scheduled" /\ rpc \notin {"created", "init", "schedule_fetchers"})
          => \A f \in fetcher_instances : rstarted[f] >= 1
    /\ (rmode = "scheduled" /\ rpc \notin {"created", "init"})
          => \A f \in Fetchers :
                (rstarted[f] = 0 /\ \E k \in 1..(ridx - 1) : FETCHERS[k] = f)
                    => \E i \in 1..Len(rjobs) :
                          rjobs[i].job = f /\ rjobs[i].tag = "startup_run"

----------------------------------------------------------------------------
\* The jobs that have an entry in the schedule.
InSchedule == {jobs[i].job : i \in DOMAIN jobs}

\* C37: for every user type the jobs that run_all_now calls are the jobs that
\* schedule_jobs registers; when the startup pass of start() has returned, the
\* jobs it has executed are the jobs that have a schedule entry.
C37_PassSetEqualsScheduleSet ==
    /\ PassJobs(user_type) = RegisteredJobs(user_type)
    /\ (mode = "start" /\ spc \in {"while", "run_pending", "sleep"})
          => {j \in Jobs : passStarted[j] > 0} = InSchedule

\* The pass of a trader-only scheduler has returned: it has run the report
\* fetcher by the elif branch and none of the investor jobs.
C37_Witness ==
    /\ mode = "start"
    /\ spc = "sleep"
    /\ user_type = "trader"
    /\ passFinished["run_economic_report_fetcher"] = 1
    /\ passStarted["run_fundamental_analyzer"] = 0
    /\ Len(jobs) = 4

----------------------------------------------------------------------------
\* C38 (as claimed): whatever start() and stop() calls have been made, the
\* schedule is empty or holds the entries that one schedule_jobs() makes, one
\* for each.
C38_RegistrationIdempotent ==
    \/ jobs = <<>>
    \/ /\ Len(jobs) = Len(ScheduleEntries(user_type))
       /\ \A i \in DOMAIN jobs :
             /\ jobs[i].job = ScheduleEntries(user_type)[i].job
             /\ jobs[i].every = ScheduleEntries(user_type)[i].every

----------------------------------------------------------------------------
\* The most entries a schedule holds (user type "both").
AllEntries == 1..(Len(TraderEntries) + Len(InvestorEntries))

\* Entry i is in the schedule of a started scheduler and its next_run has come.
EntryDue(i) ==
    /\ mode = "start"
    /\ spc \in {"gather", "sync", "while", "run_pending", "sleep"}
    /\ i \in DOMAIN jobs
    /\ jobs[i].next_run <= clock

\* C39: an entry whose next_run has come is run by the tick loop at last,
\* whatever other entries are runnable, unless the scheduler is stopped or
\* interrupted before.
C39_DueIsDispatched ==
    \A i \in AllEntries :
        EntryDue(i) ~>
            \/ spc = "run_pending" /\ curEntry = i
            \/ ~is_running
            \/ spc \in {"stopped", "exited", "crashed"}

\* The last entry of the trader block is run after another entry of the same
\* run_pending.
C39_Witness ==
    /\ user_type = "trader"
    /\ is_running
    /\ spc = "run_pending"
    /\ curEntry = Len(TraderEntries)
    /\ Len(tickRan) >= 1
    /\ Cardinality(tickDue) >= 2

====
